---- MODULE Spec2Model ----
(***************************************************************************)
(* ZUMBLE voice server: shared server state (clients, channels, sockets), *)
(* the control-message handlers that mutate it, the voice router and the  *)
(* client teardown, as a state machine.                                   *)
(*                                                                         *)
(* A client record (Arc<RwLock<Client>>) is identified by its connection  *)
(* slot in Conns; the map `clients` is keyed by session id, as in the     *)
(* source.  Handlers that release the ServerState lock between two        *)
(* critical sections are split into one action per step between them.     *)
(* Lock acquisition is assumed to succeed within the 100 ms timeout.      *)
(***************************************************************************)
EXTENDS Integers, FiniteSets, Sequences, TLC

\* ---- bounds of the model ------------------------------------------------
MaxConns == 2
MaxChannels == 2
MaxTargetSets == 2
MaxRouteChannels == 1
MaxSpeakers == 1
MaxSlotsUsed == 1
MaxListeners == 1
\* connection records; the lifecycle, voice and UDP planes use MaxConns of them
MaxQueueConns == 3

\* ---- program constants --------------------------------------------------
NumTargets == 30
LoopbackTarget == 31
RootId == 0
QueueCapacity == 128
PingTimeout == 60
CleanPeriod == 5

\* ---- value sets ---------------------------------------------------------
Conns == 1..MaxQueueConns
NoConn == 0
NoChannel == -1
NoAddr == 0
Addrs == {1, 2}
ChannelIds == 0..MaxChannels
Names == {"Root", "a", "b"}
NoName == "-"
\* wire targets fed to the router: channel talk, first and last whisper slot,
\* loopback (the header has 5 bits, so 0..31 are the only decodable values)
WireTargets == {0, 1, NumTargets, LoopbackTarget}
\* VoiceTarget.id values fed to the handler
TargetIds == {0, 1, NumTargets, NumTargets + 1}

VARIABLES
    pc,                 \* per connection task: where it stands
    session_id,         \* Client.session_id
    channel_id,         \* Client.channel_id
    mute,               \* Client.mute
    targets,            \* Client.targets: slot -> [sessions, channels]
    udp_socket_addr,    \* Client.udp_socket_addr
    arg,                \* locals a handler keeps between two critical sections
    clients,            \* ServerState.clients: session id -> client record
    clients_by_socket,  \* ServerState.clients_by_socket: address -> client record
    channels,           \* ServerState.channels: channel id -> Channel
    udp,                \* the UDP receive loop: its position and locals
    last,               \* the operation that ran last and its result
    sent,               \* the sends attempted by the operation that ran last
    crypt_late,         \* Client.crypt_state.late, per client record
    last_ping,          \* seconds elapsed since Client.last_ping
    clean_wait,         \* seconds left of clean_loop's sleep
    queued,             \* messages waiting in a client's outbound queue
    clean_loop,         \* the task of clean_loop: its position, the client in hand
    crypt_state,        \* one CryptState, as the receiver of its peer
    peer_state,         \* the CryptState of the peer, as the sender
    wire,               \* the datagrams the peer has sent
    crypt_last,         \* the last decrypt call: datagram, branch, result
    crypt_hist,         \* what was accepted since the last resync
    codec_state,        \* ServerState.codec_state
    codecs,             \* Client.codecs, per client record
    codec_check         \* check_codec of a joining client: its position and locals

clientVars == <<session_id, channel_id, mute, targets, udp_socket_addr>>

cleanVars == <<last_ping, clean_wait, queued, clean_loop>>

cryptVars == <<crypt_state, peer_state, wire, crypt_last, crypt_hist>>

serverVars == <<pc, clientVars, arg, clients, clients_by_socket, channels, udp, last, sent>>

codecVars == <<codec_state, codecs, codec_check>>

vars == <<serverVars, crypt_late, cleanVars, cryptVars, codecVars>>

\* ---- maps ---------------------------------------------------------------
Put(f, k, v) == [x \in (DOMAIN f) \cup {k} |-> IF x = k THEN v ELSE f[x]]

Remove(f, k) == [x \in (DOMAIN f) \ {k} |-> f[x]]

Values(f) == {f[x] : x \in DOMAIN f}

EmptyMap == [x \in {} |-> 0]

\* ---- records ------------------------------------------------------------
EmptyTarget == [sessions |-> {}, channels |-> {}]

NewTargets == [i \in 0..(NumTargets - 1) |-> EmptyTarget]

NoArg ==
    [leave |-> NoChannel, channel |-> NoChannel, parent |-> NoChannel, name |-> NoName,
     retry |-> 0, read |-> <<>>, slot |-> -1, sessions |-> {}, channels |-> {}]

Channel(id, parent, name, temporary) ==
    [id |-> id, parent_id |-> parent, name |-> name, temporary |-> temporary, listeners |-> {}]

Msg(to, kind, a, b, ok) == [to |-> to, kind |-> kind, a |-> a, b |-> b, ok |-> ok]

Op(op, c, a, b, res) == [op |-> op, c |-> c, a |-> a, b |-> b, res |-> res]

IdleUdp == [pc |-> "recv", addr |-> NoAddr, client |-> NoConn, remove |-> {}]

\* CodecState::default
NewCodecState == [opus |-> TRUE, alpha |-> 0, beta |-> 0, prefer_alpha |-> FALSE]

\* a client record whose check_codec has not started
NoCheck == [step |-> "none", current_version |-> 0, new_version |-> 0]

\* clean_loop between two disconnects
IdleClean == [pc |-> "loop", client |-> NoConn]

\* ---- the outbound queue of a client record ------------------------------
\* mpsc::channel(128) of handle_new_client: how many messages wait in it, and
\* whether a Disconnect is among them
EmptyQueue == [len |-> 0, disconnect |-> FALSE]

\* The receiver half lives in client_run; it is dropped when client_run returns
\* (or when the connection's task ends otherwise).
Closed(c) == pc[c] \in {"exited", "send", "dead", "idle"}

\* variant: a queue is never taken for full
Full_never(c) == FALSE

\* no permit is left: try_send fails, send().await waits
Full(c) == queued[c].len >= QueueCapacity

\* the clients of cl on whose queue send().await waits
Blocking(cl) == {d \in Values(cl) : ~Closed(d) /\ Full(d)}

\* ServerState::broadcast_message: send().await? to every value of `clients`
\* in the map's iteration order; the first closed queue aborts the loop.
\* An outcome is [ok, to]: whether the loop finished, and who was served.
\* send().await waits for room: while the queue of a client of cl is full
\* and open, the call returns only if it comes to a closed queue first.
BroadcastOutcomes(cl) ==
    LET open == {c \in Values(cl) : ~Closed(c)}
    IN  IF Blocking(cl) # {}
        THEN {[ok |-> FALSE, to |-> s, failed |-> f] :
                 s \in SUBSET (open \ Blocking(cl)), f \in Values(cl) \ open}
        ELSE IF open = Values(cl)
        THEN {[ok |-> TRUE, to |-> open, failed |-> NoConn]}
        ELSE {[ok |-> FALSE, to |-> s, failed |-> f] :
                 s \in SUBSET open, f \in Values(cl) \ open}

\* the messages a broadcast places on the queues.  Those that a recipient
\* does not take off at once are the ones QueueSend counts.
BroadcastSent(out, kind, a, b) ==
    {Msg(c, kind, a, b, TRUE) : c \in out.to}
        \cup (IF out.ok THEN {} ELSE {Msg(out.failed, kind, a, b, FALSE)})

\* ---- CryptState -----------------------------------------------------------
\* A nonce is a u128 counter.  decrypt looks at its byte 0 and byte 1 and the
\* OCB tag depends on all of it; the model keeps the low three bytes, which
\* tell apart all the nonces that are less than 2^24 packets away from each
\* other.  The initial decrypt_nonce 1 << 127 has these bytes zero.
NonceModulus == 256 * 256 * 256

MaxLate == 101
MaxPingAge == 66
MaxWire == 3
MaxResync == 2

wrapping_add(n, d) == (n + d + NonceModulus) % NonceModulus

\* `x as u8` of a counter, and the byte stored in decrypt_history
Low(n) == n % 256

Byte2(n) == (n \div 256) % 256

\* `x as i8` of a byte difference
I8(x) == LET y == (x + 256) % 256 IN IF y >= 128 THEN y - 256 ELSE y

\* CryptState::default, and what CryptState::reset goes back to (the key is
\* not part of the model: both ends hold the same key all along)
NewCryptState ==
    [encrypt_nonce |-> 0, decrypt_nonce |-> 0,
     decrypt_history |-> [i \in 0..255 |-> 0],
     good |-> 0, late |-> 0, lost |-> 0, resync |-> 0]

\* CryptState::set_decrypt_nonce
set_decrypt_nonce(cs, nonce) == [cs EXCEPT !.decrypt_nonce = nonce, !.resync = @ + 1]

\* A datagram: whether it has the 4 header bytes, header byte 0, the nonce
\* under which its tag and ciphertext were made (-1: under none, a datagram
\* that was not made with the key or was altered), and the packet inside.
Datagram(nonce_0, tag_nonce, body) ==
    [len_ok |-> TRUE, nonce_0 |-> nonce_0, tag_nonce |-> tag_nonce, body |-> body]

ShortDatagram == [len_ok |-> FALSE, nonce_0 |-> 0, tag_nonce |-> -1, body |-> -1]

\* CryptState::encrypt: the new state and the datagram
encrypt(cs, body) ==
    LET n == wrapping_add(cs.encrypt_nonce, 1)
    IN  [cs |-> [cs EXCEPT !.encrypt_nonce = n], buf |-> Datagram(Low(n), n, body)]

\* ocb_decrypt and the comparison of the tag's first 3 bytes: AES-OCB is
\* taken as ideal, the tag matches under the nonce of encryption only
ocb_decrypt(buf, nonce) == buf.tag_nonce = nonce

\* variant: the in-order branch increments the low byte without carry
next_nonce_no_carry(dn) == dn - Low(dn) + Low(dn + 1)

\* decrypt, the in-order branch: decrypt_nonce.wrapping_add(1)
next_nonce(dn) == wrapping_add(dn, 1)

\* variant: the history is not consulted
is_repeat_never(cs, nonce_0, cand) == FALSE

\* decrypt, the late branch: the history entry of the low byte holds byte 1
\* of the candidate nonce
is_repeat(cs, nonce_0, cand) == cs.decrypt_history[nonce_0] = Byte2(cand)

\* variant: decrypt_nonce is left at the candidate after a tag mismatch
after_mac_keep(saved_nonce, cand) == cand

\* decrypt, tag mismatch: self.decrypt_nonce = saved_nonce
after_mac(saved_nonce, cand) == saved_nonce

\* variant: decrypt_nonce is left at the candidate after a late packet
after_late_keep(saved_nonce, cand) == cand

\* decrypt, `if late`: self.decrypt_nonce = saved_nonce
after_late(saved_nonce, cand) == saved_nonce

\* variant: the history keeps the low byte of the nonce
history_byte_low(cand) == Low(cand)

\* decrypt: (self.decrypt_nonce >> 8) as u8, written to decrypt_history
history_byte(cand) == Byte2(cand)

\* decrypt: (self.lost as i32 + lost) as u32.  The field is kept as its i32
\* reading, so -1 stands for the u32 value 4294967295.
lost_add(lost, delta) == lost + delta

DecryptResult(cs, res, branch, cand, delta, body) ==
    [cs |-> cs, res |-> res, branch |-> branch, cand |-> cand, delta |-> delta, body |-> body]

\* CryptState::decrypt: the new state, Ok or the DecryptError, the branch
\* taken, the nonce tried, the change of `lost`, the packet decoded
decrypt(cs, buf) ==
    IF ~buf.len_ok THEN DecryptResult(cs, "Eof", "none", cs.decrypt_nonce, 0, -1)
    ELSE
    LET saved_nonce == cs.decrypt_nonce
        nonce_0 == buf.nonce_0
        in_order == Low(wrapping_add(saved_nonce, 1)) = nonce_0
        diff == I8(nonce_0 - Low(saved_nonce))
        cand == IF in_order THEN next_nonce(saved_nonce)
                ELSE wrapping_add(saved_nonce, diff)
        branch == IF in_order THEN "in_order"
                  ELSE IF diff > 0 THEN "lost"
                  ELSE IF diff > -30 THEN "late"
                  ELSE "too_late"
        late == branch = "late"
        lost == IF branch = "lost" THEN diff - 1 ELSE IF late THEN -1 ELSE 0
    IN  IF late /\ is_repeat(cs, nonce_0, cand)
        THEN DecryptResult(cs, "Repeat", branch, cand, 0, -1)
        ELSE IF branch = "too_late"
        THEN DecryptResult(cs, "Late", branch, cand, 0, -1)
        ELSE IF ~ocb_decrypt(buf, cand)
        THEN DecryptResult([cs EXCEPT !.decrypt_nonce = after_mac(saved_nonce, cand)],
                           "Mac", branch, cand, 0, -1)
        ELSE DecryptResult(
                [cs EXCEPT !.decrypt_history[nonce_0] = history_byte(cand),
                           !.good = @ + 1,
                           !.late = IF late THEN @ + 1 ELSE @,
                           !.decrypt_nonce = IF late THEN after_late(saved_nonce, cand) ELSE cand,
                           !.lost = lost_add(@, lost)],
                "Ok", branch, cand, lost, buf.body)

\* no decrypt call has been made since the last send or resync
NoDecrypt ==
    [op |-> "none", buf |-> ShortDatagram, res |-> "none", branch |-> "none",
     cand |-> 0, delta |-> 0, body |-> -1, saved_nonce |-> 0, replay |-> FALSE,
     first |-> FALSE,
     before |-> [good |-> 0, late |-> 0, lost |-> 0, resync |-> 0]]

\* what was accepted and is not above decrypt_nonce, what was ever accepted,
\* and whether every datagram so far was presented once, as the newest one,
\* before the peer went on
NewHist == [accepted |-> {}, ever |-> {}, in_order |-> TRUE]

\* ---- ServerState ---------------------------------------------------------
RECURSIVE FreeFrom(_, _)
FreeFrom(keys, n) == IF n \in keys THEN FreeFrom(keys, n + 1) ELSE n

\* variant: one more than the number of registered clients
get_free_session_id_by_count == Cardinality(DOMAIN clients) + 1

get_free_session_id == FreeFrom(DOMAIN clients, 1)

get_free_channel_id == FreeFrom(DOMAIN channels, 1)

\* the state lock is read-held by a task that is inside set_client_channel
ReadHeld == \E c \in Conns : pc[c] = "check" \/ codec_check[c].step = "counted"

\* the state lock is write-held by a task that is inside disconnect, waiting
\* in the UserRemove broadcast for room in a queue
WriteHeld == clean_loop.pc = "send" \/ \E c \in Conns : pc[c] = "send"

\* a record that no task, map or local still refers to
Unreferenced(c) ==
    /\ pc[c] = "idle"
    /\ c \notin Values(clients)
    /\ c \notin Values(clients_by_socket)
    /\ udp.client # c

FreshConn(limit) ==
    CHOOSE c \in 1..limit : Unreferenced(c) /\ \A d \in 1..limit : Unreferenced(d) => c <= d

TypeOK ==
    /\ pc \in [Conns -> {"idle", "sync", "run", "add", "join", "check", "remove",
                        "exited", "send", "dead", "version", "authenticate", "init",
                        "target"}]
    /\ session_id \in [Conns -> 0..MaxQueueConns]
    /\ channel_id \in [Conns -> ChannelIds]
    /\ mute \in [Conns -> BOOLEAN]
    /\ udp_socket_addr \in [Conns -> Addrs \cup {NoAddr}]
    /\ DOMAIN clients \subseteq 1..MaxQueueConns
    /\ Values(clients) \subseteq Conns
    /\ DOMAIN clients_by_socket \subseteq Addrs
    /\ DOMAIN channels \subseteq ChannelIds
    /\ crypt_late \in [Conns -> 0..MaxLate]
    /\ last_ping \in [Conns -> 0..MaxPingAge]
    /\ clean_wait \in 0..CleanPeriod
    /\ clean_loop.pc \in {"loop", "send", "dead"}
    /\ clean_loop.client \in Conns \cup {NoConn}
    /\ \A c \in Conns : queued[c].len \in 0..QueueCapacity /\ queued[c].disconnect \in BOOLEAN
    /\ crypt_state.decrypt_nonce \in 0..(NonceModulus - 1)
    /\ peer_state.encrypt_nonce \in 0..(NonceModulus - 1)
    /\ crypt_state.resync \in 0..MaxResync
    /\ Cardinality(wire) <= MaxWire
    /\ codec_state.prefer_alpha \in BOOLEAN
    /\ \A c \in Conns : codec_check[c].step \in {"none", "counted", "done"}

Init ==
    /\ pc = [c \in Conns |-> "idle"]
    /\ session_id = [c \in Conns |-> 0]
    /\ channel_id = [c \in Conns |-> RootId]
    /\ mute = [c \in Conns |-> FALSE]
    /\ targets = [c \in Conns |-> NewTargets]
    /\ udp_socket_addr = [c \in Conns |-> NoAddr]
    /\ arg = [c \in Conns |-> NoArg]
    /\ clients = EmptyMap
    /\ clients_by_socket = EmptyMap
    /\ channels = Put(EmptyMap, RootId, Channel(RootId, RootId, "Root", FALSE))
    /\ udp = IdleUdp
    /\ last = Op("init", NoConn, 0, 0, 0)
    /\ sent = {}
    /\ crypt_late = [c \in Conns |-> 0]
    /\ last_ping = [c \in Conns |-> 0]
    /\ clean_wait = 0
    /\ queued = [c \in Conns |-> EmptyQueue]
    /\ clean_loop = IdleClean
    /\ crypt_state = NewCryptState
    /\ peer_state = NewCryptState
    /\ wire = {}
    /\ crypt_last = NoDecrypt
    /\ crypt_hist = NewHist
    /\ codec_state = NewCodecState
    /\ codecs = [c \in Conns |-> <<>>]
    /\ codec_check = [c \in Conns |-> NoCheck]

\* handle_new_client up to add_client: a connection finished its handshake
\* and is registered under the state write lock.  `limit` bounds the number
\* of connections that are open at a time; they use the records 1..limit.
Connect(limit) ==
    /\ ~ReadHeld
    /\ ~WriteHeld
    /\ \E c \in 1..limit : Unreferenced(c)
    /\ Cardinality({c \in Conns : pc[c] # "idle"}) < limit
    /\ LET c == FreshConn(limit)
           id == get_free_session_id
       IN  /\ pc' = [pc EXCEPT ![c] = "sync"]
           /\ session_id' = [session_id EXCEPT ![c] = id]
           /\ channel_id' = [channel_id EXCEPT ![c] = RootId]
           /\ mute' = [mute EXCEPT ![c] = FALSE]
           /\ targets' = [targets EXCEPT ![c] = NewTargets]
           /\ udp_socket_addr' = [udp_socket_addr EXCEPT ![c] = NoAddr]
           /\ clients' = Put(clients, id, c)
           /\ last' = Op("add_client", c, id, 0, 0)
           /\ sent' = {}
    /\ UNCHANGED <<arg, clients_by_socket, channels, udp>>
    /\ crypt_late' = [crypt_late EXCEPT ![FreshConn(limit)] = 0]
    /\ last_ping' = [last_ping EXCEPT ![FreshConn(limit)] = 0]
    /\ queued' = [queued EXCEPT ![FreshConn(limit)] = EmptyQueue]
    /\ UNCHANGED <<clean_wait, clean_loop, cryptVars, codecVars>>

\* variant: ServerConfig is written before ServerSync
ClientWrites_config_first(c) ==
    << [kind |-> "ChannelState", ids |-> DOMAIN channels],
       [kind |-> "UserState", ids |-> DOMAIN clients],
       [kind |-> "UserState", ids |-> {session_id[c]}],
       [kind |-> "ServerConfig", allow_html |-> TRUE, message_length |-> 512,
        image_message_length |-> 0],
       [kind |-> "ServerSync", session |-> session_id[c], max_bandwidth |-> 144000] >>

\* client_run, what it writes to the stream of the new client c before the
\* broadcast, in this order: sync_client_and_channels (a ChannelState per
\* channel, then a UserState per registered client, c among them, each loop
\* in the iteration order of its map), send_my_user_state, send_server_sync,
\* send_server_config.  The codec version that check_codec yields before
\* them is not part of the model.
ClientWrites(c) ==
    << [kind |-> "ChannelState", ids |-> DOMAIN channels],
       [kind |-> "UserState", ids |-> DOMAIN clients],
       [kind |-> "UserState", ids |-> {session_id[c]}],
       [kind |-> "ServerSync", session |-> session_id[c], max_bandwidth |-> 144000],
       [kind |-> "ServerConfig", allow_html |-> TRUE, message_length |-> 512,
        image_message_length |-> 0] >>

\* client_run up to the event loop: the writes of ClientWrites, then the new
\* user's UserState is broadcast (a failed broadcast is only logged).
ClientSync(c) ==
    /\ pc[c] = "sync"
    /\ ~WriteHeld
    /\ \E out \in BroadcastOutcomes(clients) :
          sent' = BroadcastSent(out, "UserState", session_id[c], channel_id[c])
    /\ pc' = [pc EXCEPT ![c] = "run"]
    /\ last' = Op("client_run", c, session_id[c], 0, ClientWrites(c))
    /\ UNCHANGED <<clientVars, arg, clients, clients_by_socket, channels, udp>>
    /\ UNCHANGED <<crypt_late, cleanVars, cryptVars, codecVars>>

\* client_run, a write to the stream of c fails after n of the writes of
\* ClientWrites: the `?` returns the error, nothing is broadcast and the
\* event loop is not entered
ClientSyncFail(c, n) ==
    /\ pc[c] = "sync"
    /\ ~WriteHeld
    /\ n \in 0..(Len(ClientWrites(c)) - 1)
    /\ pc' = [pc EXCEPT ![c] = "exited"]
    /\ sent' = {}
    /\ last' = Op("client_run_err", c, session_id[c], 0, SubSeq(ClientWrites(c), 1, n))
    /\ UNCHANGED <<clientVars, arg, clients, clients_by_socket, channels, udp>>
    /\ UNCHANGED <<crypt_late, cleanVars, cryptVars, codecVars>>

\* client_run returns (EOF, read error, Disconnect or force-disconnect):
\* the receiver half of the outbound queue is dropped.
ClientExit(c) ==
    /\ pc[c] = "run"
    /\ pc' = [pc EXCEPT ![c] = "exited"]
    /\ last' = Op("client_exit", c, session_id[c], 0, 0)
    /\ sent' = {}
    /\ UNCHANGED <<clientVars, arg, clients, clients_by_socket, channels, udp>>
    /\ UNCHANGED <<crypt_late, cleanVars, cryptVars, codecVars>>

\* variant: the loop over the channels' parent_id is missing
check_leave_channel_no_children(cl, chan_of, ch, L) ==
    IF \E c \in Values(cl) : chan_of[c] = L THEN NoChannel
    ELSE IF L \in DOMAIN ch THEN (IF ch[L].temporary THEN L ELSE NoChannel)
    ELSE L

\* ServerState::check_leave_channel: the id to remove, or NoChannel for None
check_leave_channel(cl, chan_of, ch, L) ==
    IF \E c \in Values(cl) : chan_of[c] = L THEN NoChannel
    ELSE IF \E k \in DOMAIN ch : ch[k].parent_id = L THEN NoChannel
    ELSE IF L \in DOMAIN ch THEN (IF ch[L].temporary THEN L ELSE NoChannel)
    ELSE L

\* ServerState::disconnect(c), run under the state write lock.
\* The UserRemove broadcast is unwrapped: a closed queue among the remaining
\* clients panics the caller before check_leave_channel is reached.  The id
\* check_leave_channel returns is dropped: the channel stays in the map.
disconnect(c) ==
    LET client_id == session_id[c]
        cl == Remove(clients, client_id)
        L == channel_id[c]
        res == check_leave_channel(cl, channel_id, channels, L)
    IN  /\ ~ReadHeld
        /\ ~WriteHeld
        /\ clients' = cl
        /\ clients_by_socket' =
              IF udp_socket_addr[c] # NoAddr
              THEN Remove(clients_by_socket, udp_socket_addr[c])
              ELSE clients_by_socket
        /\ channels' = [k \in DOMAIN channels |->
                          [channels[k] EXCEPT !.listeners = @ \ {client_id}]]
        /\ \E out \in BroadcastOutcomes(cl) :
              IF ~out.ok
              THEN /\ sent' = BroadcastSent(out, "UserRemove", client_id, 0)
                   /\ last' = Op("disconnect_panic", c, client_id, L, NoChannel)
              ELSE /\ last' = Op("disconnect", c, client_id, L, res)
                   /\ IF res = NoChannel
                      THEN sent' = BroadcastSent(out, "UserRemove", client_id, 0)
                      ELSE \E out2 \in BroadcastOutcomes(cl) :
                             sent' = BroadcastSent(out, "UserRemove", client_id, 0)
                                        \cup BroadcastSent(out2, "ChannelRemove", res, 0)
        /\ UNCHANGED udp

\* ServerState::disconnect(c) up to the point where the UserRemove broadcast
\* waits for room in the queue of a remaining client: c is out of the maps,
\* the write lock stays held
disconnect_wait(c) ==
    LET client_id == session_id[c]
        cl == Remove(clients, client_id)
    IN  /\ ~ReadHeld
        /\ ~WriteHeld
        /\ Blocking(cl) # {}
        /\ clients' = cl
        /\ clients_by_socket' =
              IF udp_socket_addr[c] # NoAddr
              THEN Remove(clients_by_socket, udp_socket_addr[c])
              ELSE clients_by_socket
        /\ channels' = [k \in DOMAIN channels |->
                          [channels[k] EXCEPT !.listeners = @ \ {client_id}]]
        /\ last' = Op("disconnect_wait", c, client_id, channel_id[c], NoChannel)
        /\ sent' = {}
        /\ UNCHANGED udp

\* the rest of ServerState::disconnect(c) once no queue keeps the broadcast
\* waiting: the sends of the whole broadcast, then check_leave_channel
disconnect_send(c) ==
    LET client_id == session_id[c]
        L == channel_id[c]
        res == check_leave_channel(clients, channel_id, channels, L)
    IN  /\ Blocking(clients) = {}
        /\ \E out \in BroadcastOutcomes(clients) :
              IF ~out.ok
              THEN /\ sent' = BroadcastSent(out, "UserRemove", client_id, 0)
                   /\ last' = Op("disconnect_panic", c, client_id, L, NoChannel)
              ELSE /\ last' = Op("disconnect", c, client_id, L, res)
                   /\ IF res = NoChannel
                      THEN sent' = BroadcastSent(out, "UserRemove", client_id, 0)
                      ELSE \E out2 \in BroadcastOutcomes(clients) :
                             sent' = BroadcastSent(out, "UserRemove", client_id, 0)
                                        \cup BroadcastSent(out2, "ChannelRemove", res, 0)
        /\ UNCHANGED <<clients, clients_by_socket, channels, udp>>

\* ServerState::disconnect, the loop over the remaining clients' targets
disconnect_targets(c) ==
    LET client_id == session_id[c]
        cl == Remove(clients, client_id)
    IN  [d \in Conns |->
           IF d \in Values(cl)
           THEN [i \in DOMAIN targets[d] |->
                   [targets[d][i] EXCEPT !.sessions = @ \ {client_id}]]
           ELSE targets[d]]

\* handle_new_client after client_run: the connection's task tears it down.
\* The task's Arc is dropped at its end; the record is freed (its slot goes
\* back to the initial value) unless a socket binding or the UDP loop still
\* holds it.
Teardown(c) ==
    /\ pc[c] = "exited"
    /\ disconnect(c)
    /\ pc' = [pc EXCEPT ![c] = "idle"]
    /\ arg' = [arg EXCEPT ![c] = NoArg]
    /\ IF c \notin Values(clients_by_socket') /\ udp.client # c
       THEN /\ targets' = [disconnect_targets(c) EXCEPT ![c] = NewTargets]
            /\ session_id' = [session_id EXCEPT ![c] = 0]
            /\ channel_id' = [channel_id EXCEPT ![c] = RootId]
            /\ mute' = [mute EXCEPT ![c] = FALSE]
            /\ udp_socket_addr' = [udp_socket_addr EXCEPT ![c] = NoAddr]
       ELSE /\ targets' = disconnect_targets(c)
            /\ UNCHANGED <<session_id, channel_id, mute, udp_socket_addr>>
    /\ crypt_late' = IF c \notin Values(clients_by_socket') /\ udp.client # c
                     THEN [crypt_late EXCEPT ![c] = 0]
                     ELSE crypt_late
    /\ last_ping' = [last_ping EXCEPT ![c] = 0]
    /\ queued' = [queued EXCEPT ![c] = EmptyQueue]
    /\ UNCHANGED <<clean_wait, clean_loop, cryptVars, codecVars>>

\* handle_new_client after client_run, with a full queue among the clients
\* that remain: the task waits inside disconnect, holding the write lock
TeardownWait(c) ==
    /\ pc[c] = "exited"
    /\ disconnect_wait(c)
    /\ pc' = [pc EXCEPT ![c] = "send"]
    /\ targets' = disconnect_targets(c)
    /\ UNCHANGED <<arg, session_id, channel_id, mute, udp_socket_addr>>
    /\ UNCHANGED <<crypt_late, cleanVars, cryptVars, codecVars>>

\* the broadcast goes on and the teardown ends as in Teardown
TeardownSend(c) ==
    /\ pc[c] = "send"
    /\ disconnect_send(c)
    /\ pc' = [pc EXCEPT ![c] = "idle"]
    /\ arg' = [arg EXCEPT ![c] = NoArg]
    /\ IF c \notin Values(clients_by_socket) /\ udp.client # c
       THEN /\ targets' = [targets EXCEPT ![c] = NewTargets]
            /\ session_id' = [session_id EXCEPT ![c] = 0]
            /\ channel_id' = [channel_id EXCEPT ![c] = RootId]
            /\ mute' = [mute EXCEPT ![c] = FALSE]
            /\ udp_socket_addr' = [udp_socket_addr EXCEPT ![c] = NoAddr]
            /\ crypt_late' = [crypt_late EXCEPT ![c] = 0]
       ELSE UNCHANGED <<targets, session_id, channel_id, mute, udp_socket_addr, crypt_late>>
    /\ last_ping' = [last_ping EXCEPT ![c] = 0]
    /\ queued' = [queued EXCEPT ![c] = EmptyQueue]
    /\ UNCHANGED <<clean_wait, clean_loop, cryptVars, codecVars>>

\* clean_loop has panicked: its task is gone
DeadClean == [pc |-> "dead", client |-> NoConn]

\* clean_run: a registered client whose queue is closed is disconnected by
\* the cleanup loop; its own task has not torn it down yet.  The unwrap in
\* disconnect panics in the task of clean_loop.
CleanDisconnect(c) ==
    /\ clean_loop.pc = "loop"
    /\ c \in Values(clients)
    /\ Closed(c)
    /\ disconnect(c)
    /\ targets' = disconnect_targets(c)
    /\ clean_loop' = IF last'.op = "disconnect_panic" THEN DeadClean ELSE clean_loop
    /\ UNCHANGED <<pc, arg, session_id, channel_id, mute, udp_socket_addr>>
    /\ UNCHANGED <<crypt_late, last_ping, clean_wait, queued, cryptVars, codecVars>>

\* clean_run, with a full queue among the clients that remain: clean_loop
\* waits inside disconnect, holding the write lock
CleanWait(c) ==
    /\ clean_loop.pc = "loop"
    /\ c \in Values(clients)
    /\ Closed(c)
    /\ disconnect_wait(c)
    /\ targets' = disconnect_targets(c)
    /\ clean_loop' = [pc |-> "send", client |-> c]
    /\ UNCHANGED <<pc, arg, session_id, channel_id, mute, udp_socket_addr>>
    /\ UNCHANGED <<crypt_late, last_ping, clean_wait, queued, cryptVars, codecVars>>

\* the broadcast goes on
CleanSend ==
    /\ clean_loop.pc = "send"
    /\ disconnect_send(clean_loop.client)
    /\ clean_loop' = IF last'.op = "disconnect_panic" THEN DeadClean ELSE IdleClean
    /\ UNCHANGED <<pc, arg, clientVars>>
    /\ UNCHANGED <<crypt_late, last_ping, clean_wait, queued, cryptVars, codecVars>>

\* ---- channel moves -------------------------------------------------------
\* Client::join_channel: the channel left, or NoChannel for None
join_channel(c, ch) == IF ch = channel_id[c] THEN NoChannel ELSE channel_id[c]

\* ServerState::set_client_channel up to the call of check_leave_channel:
\* the swap of channel_id and the UserState broadcast (a failure is logged).
\* The state read lock stays held until check_leave_channel has returned.
SetClientChannel(c, ch, op) ==
    LET L == join_channel(c, ch)
    IN  IF L = NoChannel
        THEN /\ pc' = [pc EXCEPT ![c] = "run"]
             /\ arg' = [arg EXCEPT ![c] = NoArg]
             /\ last' = Op(op, c, ch, NoChannel, 0)
             /\ sent' = {}
             /\ UNCHANGED channel_id
        ELSE /\ channel_id' = [channel_id EXCEPT ![c] = ch]
             /\ pc' = [pc EXCEPT ![c] = "check"]
             /\ arg' = [arg EXCEPT ![c] = [NoArg EXCEPT !.leave = L]]
             /\ last' = Op(op, c, ch, L, 0)
             /\ \E out \in BroadcastOutcomes(clients) :
                   sent' = BroadcastSent(out, "UserState", session_id[c], ch)

\* UserState handler, a message that carries channel_id: no check that the
\* channel exists is made.  A message for another session is ignored.
UserStateMove(c, s, ch) ==
    /\ pc[c] = "run"
    /\ ~WriteHeld
    /\ IF s # session_id[c]
       THEN /\ last' = Op("user_state_ignored", c, s, 0, 0)
            /\ sent' = {}
            /\ UNCHANGED <<pc, arg, channel_id>>
       ELSE SetClientChannel(c, ch, "move")
    /\ UNCHANGED <<session_id, mute, targets, udp_socket_addr,
                   clients, clients_by_socket, channels, udp>>
    /\ UNCHANGED <<crypt_late, cleanVars, cryptVars, codecVars>>

\* the rest of set_client_channel: check_leave_channel on the channel left
CheckLeaveChannel(c) ==
    LET L == arg[c].leave
        res == check_leave_channel(clients, channel_id, channels, L)
    IN  /\ pc[c] = "check"
        /\ last' = Op("check_leave_channel", c, L, 0, res)
        /\ IF res = NoChannel
           THEN /\ pc' = [pc EXCEPT ![c] = "run"]
                /\ arg' = [arg EXCEPT ![c] = NoArg]
                /\ sent' = {}
           ELSE /\ pc' = [pc EXCEPT ![c] = "remove"]
                /\ arg' = arg
                /\ \E out \in BroadcastOutcomes(clients) :
                      sent' = BroadcastSent(out, "ChannelRemove", L, 0)
        /\ UNCHANGED <<clientVars, clients, clients_by_socket, channels, udp>>
        /\ UNCHANGED <<crypt_late, cleanVars, cryptVars, codecVars>>

\* the handler's state.write().channels.remove(&leave_channel_id)
RemoveChannel(c) ==
    /\ pc[c] = "remove"
    /\ ~ReadHeld
    /\ ~WriteHeld
    /\ channels' = Remove(channels, arg[c].leave)
    /\ pc' = [pc EXCEPT ![c] = "run"]
    /\ arg' = [arg EXCEPT ![c] = NoArg]
    /\ last' = Op("remove_channel", c, arg[c].leave, 0, 0)
    /\ sent' = {}
    /\ UNCHANGED <<clientVars, clients, clients_by_socket, udp>>
    /\ UNCHANGED <<crypt_late, cleanVars, cryptVars, codecVars>>

\* UserState handler, Client::update: a message that carries mute
UserStateMute(c, m) ==
    /\ pc[c] = "run"
    /\ mute' = [mute EXCEPT ![c] = m]
    /\ last' = Op("user_state_mute", c, 0, 0, 0)
    /\ sent' = {}
    /\ UNCHANGED <<pc, session_id, channel_id, targets, udp_socket_addr, arg,
                   clients, clients_by_socket, channels, udp>>
    /\ UNCHANGED <<crypt_late, cleanVars, cryptVars, codecVars>>

\* UserState handler: listening_channel_add / listening_channel_remove
UserStateListen(c, ch, add) ==
    /\ pc[c] = "run"
    /\ ~WriteHeld
    /\ channels' = IF ch \in DOMAIN channels
                   THEN [channels EXCEPT ![ch].listeners =
                            IF add THEN @ \cup {session_id[c]} ELSE @ \ {session_id[c]}]
                   ELSE channels
    /\ last' = Op("user_state_listen", c, ch, 0, 0)
    /\ sent' = {}
    /\ UNCHANGED <<pc, clientVars, arg, clients, clients_by_socket, udp>>
    /\ UNCHANGED <<crypt_late, cleanVars, cryptVars, codecVars>>

\* POST /mute: Client::mute on the client found by name
post_mute(c, m) ==
    /\ c \in Values(clients)
    /\ ~WriteHeld
    /\ mute' = [mute EXCEPT ![c] = m]
    /\ last' = Op("post_mute", c, 0, 0, 0)
    /\ sent' = {}
    /\ UNCHANGED <<pc, session_id, channel_id, targets, udp_socket_addr, arg,
                   clients, clients_by_socket, channels, udp>>
    /\ UNCHANGED <<crypt_late, cleanVars, cryptVars, codecVars>>

\* ---- channel creation ----------------------------------------------------
\* ChannelState handler up to the name lookup.  `valid` stands for a message
\* without channel_id, with parent and name, and with temporary = true;
\* `limit` bounds the number of channels created.
ChannelStateRecv(c, valid, parent, name, limit) ==
    /\ pc[c] = "run"
    /\ ~WriteHeld
    /\ Cardinality(DOMAIN channels) + Cardinality({d \in Conns : pc[d] = "add"}) <= limit
    /\ IF ~valid \/ parent \notin DOMAIN channels
       THEN /\ last' = Op("channel_state_rejected", c, 0, 0, 0)
            /\ sent' = {}
            /\ UNCHANGED <<pc, arg>>
       ELSE LET found == {k \in DOMAIN channels : channels[k].name = name}
            IN  IF found # {}
                THEN \E k \in found :
                        /\ pc' = [pc EXCEPT ![c] = "join"]
                        /\ arg' = [arg EXCEPT ![c] = [NoArg EXCEPT !.channel = channels[k].id]]
                        /\ last' = Op("channel_state_exists", c, channels[k].id, 0, 0)
                        /\ sent' = {Msg(c, "ChannelState", channels[k].id, 0, TRUE)}
                ELSE /\ pc' = [pc EXCEPT ![c] = "add"]
                     /\ arg' = [arg EXCEPT ![c] = [NoArg EXCEPT !.parent = parent, !.name = name]]
                     /\ last' = Op("channel_state_new", c, parent, 0, 0)
                     /\ sent' = {}
    /\ UNCHANGED <<clientVars, clients, clients_by_socket, channels, udp>>
    /\ UNCHANGED <<crypt_late, cleanVars, cryptVars, codecVars>>

\* ServerState::add_channel under the write lock, then the ChannelState
\* broadcast, whose failure ends the handler (and the session) with an error
AddChannel(c) ==
    LET id == get_free_channel_id
    IN  /\ pc[c] = "add"
        /\ ~ReadHeld
        /\ ~WriteHeld
        /\ channels' = Put(channels, id, Channel(id, arg[c].parent, arg[c].name, TRUE))
        /\ last' = Op("add_channel", c, id, arg[c].parent, 0)
        /\ \E out \in BroadcastOutcomes(clients) :
              /\ sent' = BroadcastSent(out, "ChannelState", id, 0)
              /\ IF out.ok
                 THEN /\ pc' = [pc EXCEPT ![c] = "join"]
                      /\ arg' = [arg EXCEPT ![c] = [NoArg EXCEPT !.channel = id]]
                 ELSE /\ pc' = [pc EXCEPT ![c] = "exited"]
                      /\ arg' = [arg EXCEPT ![c] = NoArg]
        /\ UNCHANGED <<clientVars, clients, clients_by_socket, udp>>
        /\ UNCHANGED <<crypt_late, cleanVars, cryptVars, codecVars>>

\* ChannelState handler: the requester is moved into the channel
JoinCreated(c) ==
    /\ pc[c] = "join"
    /\ ~WriteHeld
    /\ SetClientChannel(c, arg[c].channel, "join")
    /\ UNCHANGED <<session_id, mute, targets, udp_socket_addr,
                   clients, clients_by_socket, channels, udp>>
    /\ UNCHANGED <<crypt_late, cleanVars, cryptVars, codecVars>>

\* ---- whisper targets -----------------------------------------------------
\* VoiceTarget.id of a message that carries no id (has_id() is false)
NoTargetId == -1

\* Client::get_target: the slot, or -1 for None
get_target(i) == IF i \in 0..(NumTargets - 1) THEN i ELSE -1

\* VoiceTarget handler.  `sess` and `chans` are the union of the sessions and
\* of the channel ids of the received target items; ids that are not
\* registered / not in the channel map are filtered out.  id = 0 makes
\* `get_id() - 1` overflow: a panic of the task in a build with overflow
\* checks (`panics`), the index u32::MAX, hence no slot, otherwise.  A
\* message without id returns before the slot is looked up.
VoiceTargetRecv(c, id, sess, chans, panics) ==
    LET slot == IF id = NoTargetId THEN -1 ELSE get_target(id - 1)
    IN  /\ pc[c] = "run"
        /\ ~WriteHeld
        /\ sent' = {}
        /\ IF id = 0 /\ panics
           THEN /\ pc' = [pc EXCEPT ![c] = "dead"]
                /\ last' = Op("voice_target_panic", c, id, 0, 0)
                /\ UNCHANGED targets
           ELSE /\ pc' = pc
                /\ last' = Op("voice_target", c, id, 0, slot)
                /\ targets' = IF slot = -1
                              THEN targets
                              ELSE [targets EXCEPT ![c][slot] =
                                      [sessions |-> sess \cap DOMAIN clients,
                                       channels |-> chans \cap DOMAIN channels]]
        /\ UNCHANGED <<session_id, channel_id, mute, udp_socket_addr, arg,
                       clients, clients_by_socket, channels, udp>>
        /\ UNCHANGED <<crypt_late, cleanVars, cryptVars, codecVars>>

\* ---- voice router --------------------------------------------------------
\* variant: the channel's listeners set is not consulted
get_listeners_members_only(ch) ==
    LET members == {k \in DOMAIN clients : channel_id[clients[k]] = ch.id}
    IN  [k \in members |-> clients[k]]

\* Channel::get_listeners: session id -> client record, the members of the
\* channel first, then its listeners that are registered
get_listeners(ch) ==
    LET members == {k \in DOMAIN clients : channel_id[clients[k]] = ch.id}
        listening == {k \in ch.listeners : k \in DOMAIN clients}
    IN  [k \in members \cup listening |-> clients[k]]

\* variant: the channels of the slot are not consulted
whisper_listeners_sessions_only(c, slot) ==
    LET t == targets[c][slot]
        bySession == {k \in t.sessions : k \in DOMAIN clients}
    IN  [k \in bySession |-> clients[k]]

\* the whisper arm of the router: sessions of the slot that are registered,
\* then the listeners of each channel of the slot that exists
whisper_listeners(c, slot) ==
    LET t == targets[c][slot]
        bySession == {k \in t.sessions : k \in DOMAIN clients}
        byChannel == UNION {DOMAIN get_listeners(channels[k]) :
                               k \in {x \in t.channels : x \in DOMAIN channels}}
    IN  [k \in bySession \cup byChannel |-> clients[k]]

\* listening_clients of the handler for wire target t (not loopback)
listening_clients(c, t) ==
    IF t = 0
    THEN IF channel_id[c] \in DOMAIN channels
         THEN get_listeners(channels[channel_id[c]])
         ELSE EmptyMap
    ELSE IF t \in 1..NumTargets
    THEN IF get_target(t - 1) # -1 THEN whisper_listeners(c, get_target(t - 1)) ELSE EmptyMap
    ELSE EmptyMap

\* variant: the mute check is missing
muted_never(c) == FALSE

\* the handler's first check: a muted sender's packet is dropped, whatever
\* its target
muted(c) == mute[c]

\* the handler's last loop: the listening clients other than the sender,
\* compared by session id
recipients(c, t) ==
    {x \in Values(listening_clients(c, t)) : session_id[x] # session_id[c]}

\* Handler for VoicePacket<Clientbound>: an Audio packet of client c, stamped
\* with c's session id, with wire target t.  `via` tells how it got here:
\* a UDPTunnel control frame, or a RouteVoicePacket taken from c's queue.
\* try_send fails on a recipient whose queue is closed or full.  A recipient
\* whose queue is empty takes the packet off at once; behind messages that
\* wait on the queue the packet waits too.
VoicePacketHandle(c, t, via) ==
    /\ pc[c] = "run"
    /\ ~WriteHeld
    /\ via \in {"UDPTunnel", "RouteVoicePacket"}
    /\ last' = Op("voice_packet", c, session_id[c], t, IF muted(c) THEN 1 ELSE 0)
    /\ IF muted(c)
       THEN sent' = {}
       ELSE IF t = LoopbackTarget
       THEN sent' = {Msg(c, "VoiceEcho", session_id[c], t, TRUE)}
       ELSE sent' = {Msg(d, "SendVoicePacket", session_id[c], t, ~Closed(d) /\ ~Full(d)) :
                        d \in recipients(c, t)}
    /\ queued' = [d \in Conns |->
                     IF /\ ~muted(c) /\ t # LoopbackTarget /\ d \in recipients(c, t)
                        /\ ~Closed(d) /\ ~Full(d) /\ queued[d].len > 0
                     THEN [queued[d] EXCEPT !.len = @ + 1]
                     ELSE queued[d]]
    /\ UNCHANGED <<pc, clientVars, arg, clients, clients_by_socket, channels, udp>>
    /\ UNCHANGED <<crypt_late, last_ping, clean_wait, clean_loop, cryptVars, codecVars>>

\* ---- UDP receive loop ----------------------------------------------------
\* udp_server_run: `let mut dead_clients = HashMap::new()` at the head of the
\* function, which create_udp_server calls once per datagram: the map that
\* the dead-client check reads is the empty one of this call, and the entry
\* inserted after a probe that matched nobody is dropped with it.
dead_clients == EmptyMap

\* the dead-client check lets the datagram through: the address has no entry
\* (an entry would hold it back for 20 s)
PassesDeadClients(a) == a \notin DOMAIN dead_clients

\* what decrypt and decode make of a datagram: an Audio packet in order or
\* after a gap, an Audio packet accepted late, or a DecryptError (Eof stands
\* for Eof and Io, the errors of decoding the plaintext)
DecryptOutcomes == {"Ok", "OkLate", "Repeat", "Late", "Mac", "Eof"}

\* variant: the restart starts at late = 100
restart_crypt_from_100(err, late) ==
    IF err = "Late" THEN late >= 100 ELSE err # "Repeat"

\* udp_server_run: `let restart_crypt = match err { .. }`
restart_crypt(err, late) ==
    IF err = "Late" THEN late > 100 ELSE err # "Repeat"

\* udp_server_run, the decrypted Audio packet of address a is handed to its
\* owner c: `publisher.send(RouteVoicePacket).await` returns an error on a
\* closed queue and waits for a slot on a full one; the receive loop reads
\* no datagram meanwhile
hand_over(a, c) ==
    IF Full(c) /\ ~Closed(c)
    THEN /\ udp' = [pc |-> "send", addr |-> a, client |-> c, remove |-> {}]
         /\ sent' = {}
         /\ queued' = queued
    ELSE /\ udp' = IdleUdp
         /\ sent' = {Msg(c, "RouteVoicePacket", session_id[c], 0, ~Closed(c))}
         /\ queued' = IF ~Closed(c) /\ queued[c].len > 0
                       THEN [queued EXCEPT ![c].len = @ + 1]
                       ELSE queued

\* udp_server_run, a datagram from an address bound to a client, decrypted
\* under that client's crypt state with outcome `err`.  On a restart
\* send_crypt_setup(true) resets the crypt state and writes a CryptSetup to
\* the client's stream (a failed write is only logged); the address is
\* removed in a later critical section.
UdpRecvKnown(a, err) ==
    LET c == clients_by_socket[a]
        late == crypt_late[c]
        failed == err \notin {"Ok", "OkLate"}
        restart == failed /\ restart_crypt(err, late)
    IN  /\ udp.pc = "recv"
        /\ ~WriteHeld
        /\ PassesDeadClients(a)
        /\ a \in DOMAIN clients_by_socket
        /\ err = "OkLate" => late < MaxLate
        /\ last' = Op("udp_known", c, a, late, err)
        /\ crypt_late' = IF restart THEN [crypt_late EXCEPT ![c] = 0]
                          ELSE IF err = "OkLate" THEN [crypt_late EXCEPT ![c] = late + 1]
                          ELSE crypt_late
        /\ IF ~failed
           THEN hand_over(a, c)
           ELSE IF ~restart
           THEN /\ sent' = {}
                /\ udp' = udp
                /\ queued' = queued
           ELSE /\ sent' = {Msg(c, "CryptSetup", 0, 0, TRUE)}
                /\ udp' = IF udp_socket_addr[c] # NoAddr
                          THEN [pc |-> "unbind_known", addr |-> a, client |-> c,
                                remove |-> {udp_socket_addr[c]}]
                          ELSE udp
                /\ queued' = queued
        /\ UNCHANGED <<pc, clientVars, arg, clients, clients_by_socket, channels>>
        /\ UNCHANGED <<last_ping, clean_wait, clean_loop, cryptVars, codecVars>>

\* variant: every client that fails to decrypt loses its address
UdpRecvUnknown_unbind_all(a, owner, stale) ==
    LET remove == {udp_socket_addr[c] : c \in stale} \ {NoAddr}
        again == last.op = "udp_probe" /\ last.c = NoConn /\ last.a = a
    IN  /\ udp.pc = "recv"
        /\ ~WriteHeld
        /\ PassesDeadClients(a)
        /\ a \notin DOMAIN clients_by_socket
        /\ owner \in Values(clients) \cup {NoConn}
        /\ stale \subseteq Values(clients) \ {owner}
        /\ udp_socket_addr' = [c \in Conns |-> IF c \in Values(clients) \ {owner} THEN NoAddr ELSE udp_socket_addr[c]]
        /\ sent' = {Msg(c, "CryptSetup", 0, 0, TRUE) : c \in stale}
        /\ last' = Op("udp_probe", owner, a, IF again THEN 1 ELSE 0, 0)
        /\ udp' = IF remove # {}
                  THEN [pc |-> "unbind", addr |-> a, client |-> owner, remove |-> remove]
                  ELSE IF owner # NoConn
                  THEN [pc |-> "bind", addr |-> a, client |-> owner, remove |-> {}]
                  ELSE udp
        /\ UNCHANGED <<pc, session_id, channel_id, mute, targets, arg,
                       clients, clients_by_socket, channels>>
        /\ crypt_late' = [c \in Conns |-> IF c \in stale THEN 0 ELSE crypt_late[c]]
        /\ UNCHANGED <<cleanVars, cryptVars, codecVars>>


\* udp_server_run, a datagram from an unbound address: find_client_for_packet
\* under the state read lock.  `owner` is the client whose crypt state
\* decrypts the datagram (NoConn: none does); `stale` are the clients probed
\* before it whose last good packet is more than 5 s old: each is sent a
\* CryptSetup and loses udp_socket_addr, its address is removed later.
\* `last` tells whether the datagram handled just before came from the same
\* address and matched no client.
UdpRecvUnknown(a, owner, stale) ==
    LET remove == {udp_socket_addr[c] : c \in stale} \ {NoAddr}
        again == last.op = "udp_probe" /\ last.c = NoConn /\ last.a = a
    IN  /\ udp.pc = "recv"
        /\ ~WriteHeld
        /\ PassesDeadClients(a)
        /\ a \notin DOMAIN clients_by_socket
        /\ owner \in Values(clients) \cup {NoConn}
        /\ stale \subseteq Values(clients) \ {owner}
        /\ udp_socket_addr' = [c \in Conns |-> IF c \in stale THEN NoAddr ELSE udp_socket_addr[c]]
        /\ sent' = {Msg(c, "CryptSetup", 0, 0, TRUE) : c \in stale}
        /\ last' = Op("udp_probe", owner, a, IF again THEN 1 ELSE 0, 0)
        /\ udp' = IF remove # {}
                  THEN [pc |-> "unbind", addr |-> a, client |-> owner, remove |-> remove]
                  ELSE IF owner # NoConn
                  THEN [pc |-> "bind", addr |-> a, client |-> owner, remove |-> {}]
                  ELSE udp
        /\ UNCHANGED <<pc, session_id, channel_id, mute, targets, arg,
                       clients, clients_by_socket, channels>>
        /\ crypt_late' = [c \in Conns |-> IF c \in stale THEN 0 ELSE crypt_late[c]]
        /\ UNCHANGED <<cleanVars, cryptVars, codecVars>>

\* ServerState::remove_client_by_socket under the state write lock, for the
\* addresses collected before; on the bound path the client's
\* udp_socket_addr is cleared next
UdpUnbind ==
    /\ udp.pc \in {"unbind", "unbind_known"}
    /\ ~ReadHeld
    /\ ~WriteHeld
    /\ clients_by_socket' = [x \in (DOMAIN clients_by_socket) \ udp.remove |-> clients_by_socket[x]]
    /\ last' = Op("udp_unbind", udp.client, udp.addr, 0, 0)
    /\ sent' = {}
    /\ IF udp.pc = "unbind_known"
       THEN /\ udp_socket_addr' = [udp_socket_addr EXCEPT ![udp.client] = NoAddr]
            /\ udp' = IdleUdp
       ELSE /\ udp_socket_addr' = udp_socket_addr
            /\ udp' = IF udp.client # NoConn THEN [udp EXCEPT !.pc = "bind", !.remove = {}] ELSE IdleUdp
    /\ UNCHANGED <<pc, session_id, channel_id, mute, targets, arg, clients, channels>>
    /\ UNCHANGED <<crypt_late, cleanVars, cryptVars, codecVars>>

\* variant: the previous address of the client stays in clients_by_socket
UdpBind_keep_old ==
    LET c == udp.client
        old == udp_socket_addr[c]
        unbound == IF old # NoAddr THEN Remove(clients_by_socket, old) ELSE clients_by_socket
    IN  /\ udp.pc = "bind"
        /\ ~ReadHeld
        /\ ~WriteHeld
        /\ udp_socket_addr' = [udp_socket_addr EXCEPT ![c] = udp.addr]
        /\ clients_by_socket' = Put(clients_by_socket, udp.addr, c)
        /\ last' = Op("set_client_socket", c, udp.addr, old, 0)
        /\ hand_over(udp.addr, c)
        /\ UNCHANGED <<pc, session_id, channel_id, mute, targets, arg, clients, channels>>
        /\ UNCHANGED <<crypt_late, last_ping, clean_wait, clean_loop, cryptVars, codecVars>>


\* ServerState::set_client_socket under the state write lock, then the Audio
\* packet is queued on its owner as RouteVoicePacket
UdpBind ==
    LET c == udp.client
        old == udp_socket_addr[c]
        unbound == IF old # NoAddr THEN Remove(clients_by_socket, old) ELSE clients_by_socket
    IN  /\ udp.pc = "bind"
        /\ ~ReadHeld
        /\ ~WriteHeld
        /\ udp_socket_addr' = [udp_socket_addr EXCEPT ![c] = udp.addr]
        /\ clients_by_socket' = Put(unbound, udp.addr, c)
        /\ last' = Op("set_client_socket", c, udp.addr, old, 0)
        /\ hand_over(udp.addr, c)
        /\ UNCHANGED <<pc, session_id, channel_id, mute, targets, arg, clients, channels>>
        /\ UNCHANGED <<crypt_late, last_ping, clean_wait, clean_loop, cryptVars, codecVars>>

\* udp_server_run: the slot has come free, or the owner's task has ended
UdpSend ==
    /\ udp.pc = "send"
    /\ Full(udp.client) => Closed(udp.client)
    /\ last' = Op("udp_send", udp.client, udp.addr, 0, 0)
    /\ hand_over(udp.addr, udp.client)
    /\ UNCHANGED <<pc, clientVars, arg, clients, clients_by_socket, channels>>
    /\ UNCHANGED <<crypt_late, last_ping, clean_wait, clean_loop, cryptVars, codecVars>>

\* ---- control frames ------------------------------------------------------
\* the kinds of TryFrom<u16> for MessageKind
MessageKinds == 0..25

\* the kinds MessageHandler::handle dispatches to a handler
HandledKinds == {0, 1, 2, 3, 7, 9, 15, 19, 20}

\* kinds of the frames read here: a known kind without handler (Reject,
\* SuggestConfig) and kinds that are no MessageKind (26, the largest u16)
FrameKinds == {4, 25, 26, 65535}

\* variant: the error of one frame ends every session
FrameRecv_all(c, kind) ==
    /\ pc[c] = "run"
    /\ kind \notin HandledKinds
    /\ pc' = [d \in Conns |-> IF kind \notin MessageKinds /\ pc[d] = "run" THEN "exited" ELSE pc[d]]
    /\ last' = Op(IF kind \in MessageKinds THEN "unsupported_kind" ELSE "bad_kind",
                  c, session_id[c], kind, 0)
    /\ sent' = {}
    /\ UNCHANGED <<clientVars, arg, clients, clients_by_socket, channels, udp>>
    /\ UNCHANGED <<crypt_late, cleanVars, cryptVars, codecVars>>

\* MessageHandler::handle, a control frame of client c whose kind has no
\* handler.  The frame is read whole, then MessageKind::try_from(kind)? fails
\* on a kind outside 0..25: handle returns the error, client_run returns it
\* and drops the receiver of c's queue.  A known kind without handler is
\* logged and ignored.
FrameRecv(c, kind) ==
    /\ pc[c] = "run"
    /\ kind \notin HandledKinds
    /\ pc' = IF kind \in MessageKinds THEN pc ELSE [pc EXCEPT ![c] = "exited"]
    /\ last' = Op(IF kind \in MessageKinds THEN "unsupported_kind" ELSE "bad_kind",
                  c, session_id[c], kind, 0)
    /\ sent' = {}
    /\ UNCHANGED <<clientVars, arg, clients, clients_by_socket, channels, udp>>
    /\ UNCHANGED <<crypt_late, cleanVars, cryptVars, codecVars>>

\* ---- specifications ------------------------------------------------------
\* connections, channel moves and channel creation
Lifecycle ==
    \/ Connect(MaxConns)
    \/ \E c \in Conns : ClientSync(c)
    \/ \E c \in Conns : ClientExit(c)
    \/ \E c \in Conns : Teardown(c)
    \/ \E c \in Conns : CleanDisconnect(c)

Moves ==
    \/ \E c \in Conns, ch \in ChannelIds : UserStateMove(c, session_id[c], ch)
    \/ \E c \in Conns : CheckLeaveChannel(c)
    \/ \E c \in Conns : RemoveChannel(c)
    \/ \E c \in Conns, valid \in BOOLEAN, parent \in ChannelIds, name \in Names :
          ChannelStateRecv(c, valid, parent, name, MaxChannels)
    \/ \E c \in Conns : AddChannel(c)
    \/ \E c \in Conns : JoinCreated(c)

Next == Lifecycle \/ Moves

Spec == Init /\ [][Next]_vars

\* the voice plane: up to MaxConns clients and one created channel; the
\* first MaxSpeakers connections speak, set whisper targets and are muted,
\* at most MaxSlotsUsed whisper slots and MaxListeners listener entries are
\* in use at a time
Speakers == 1..MaxSpeakers

TargetInputs ==
    {in \in [sess : SUBSET (1..MaxConns), chans : SUBSET (0..MaxRouteChannels)] :
        Cardinality(in.sess) + Cardinality(in.chans) <= MaxTargetSets}

SlotsUsed == Cardinality({x \in Speakers \X (0..(NumTargets - 1)) : targets[x[1]][x[2]] # EmptyTarget})

ListenersUsed == Cardinality({x \in (DOMAIN channels) \X (1..MaxConns) : x[2] \in channels[x[1]].listeners})

RouteNext ==
    \/ Connect(MaxConns)
    \/ \E c \in Conns : ClientSync(c)
    \/ \E c \in Conns : ClientExit(c)
    \/ \E c \in Conns : Teardown(c)
    \/ \E c \in Conns, ch \in 0..MaxRouteChannels : UserStateMove(c, session_id[c], ch)
    \/ \E c \in Conns : CheckLeaveChannel(c)
    \/ \E c \in Conns : RemoveChannel(c)
    \/ \E c \in Speakers : ChannelStateRecv(c, TRUE, RootId, "a", MaxRouteChannels)
    \/ \E c \in Speakers : AddChannel(c)
    \/ \E c \in Speakers : JoinCreated(c)
    \/ \E c \in Conns, ch \in 0..MaxRouteChannels, add \in BOOLEAN :
          /\ add => ListenersUsed < MaxListeners
          /\ UserStateListen(c, ch, add)
    \/ \E c \in Speakers, m \in BOOLEAN : post_mute(c, m)
    \/ \E c \in Speakers, id \in TargetIds, in \in TargetInputs, panics \in BOOLEAN :
          /\ panics => id = 0
          /\ SlotsUsed - (IF get_target(id - 1) # -1 /\ targets[c][get_target(id - 1)] # EmptyTarget THEN 1 ELSE 0)
                < MaxSlotsUsed
          /\ VoiceTargetRecv(c, id, in.sess, in.chans, panics)
    \/ \E c \in Speakers, t \in WireTargets, via \in {"UDPTunnel", "RouteVoicePacket"} :
          VoicePacketHandle(c, t, via)

SpecRoute == Init /\ [][RouteNext]_vars

\* the UDP plane: connections, the UDP receive loop and the per-session
\* entries a teardown has to clear (channel listeners, whisper sessions)
UdpNext ==
    \/ Connect(MaxConns)
    \/ \E c \in Conns : ClientSync(c)
    \/ \E c \in Conns : ClientExit(c)
    \/ \E c \in Conns : Teardown(c)
    \/ \E a \in Addrs, err \in {"Ok", "Repeat", "Mac"} : UdpRecvKnown(a, err)
    \/ \E a \in Addrs, owner \in Conns \cup {NoConn}, stale \in SUBSET Conns :
          UdpRecvUnknown(a, owner, stale)
    \/ UdpUnbind
    \/ UdpBind
    \/ \E c \in Conns, add \in BOOLEAN : UserStateListen(c, RootId, add)
    \/ \E c \in Conns, sess \in SUBSET (1..MaxConns) : VoiceTargetRecv(c, 1, sess, {}, FALSE)

SpecUdp == Init /\ [][UdpNext]_vars

\* one connection that stays, and every outcome of decrypt on its datagrams
KnownNext ==
    \/ Connect(1)
    \/ \E c \in Conns : ClientSync(c)
    \/ \E a \in Addrs, err \in DecryptOutcomes : UdpRecvKnown(a, err)
    \/ \E a \in Addrs, owner \in Conns \cup {NoConn} : UdpRecvUnknown(a, owner, {})
    \/ UdpUnbind
    \/ UdpBind

SpecKnown == Init /\ [][KnownNext]_vars

\* ---- ping timeout (SpecClean) ----------------------------------------------
\* Ping handler: last_ping = Instant::now(), then the reply is written to the
\* client's stream
PingRecv(c) ==
    /\ pc[c] = "run"
    /\ last_ping' = [last_ping EXCEPT ![c] = 0]
    /\ last' = Op("ping", c, session_id[c], 0, 0)
    /\ sent' = {Msg(c, "Ping", 0, 0, TRUE)}
    /\ UNCHANGED <<pc, clientVars, arg, clients, clients_by_socket, channels, udp>>
    /\ UNCHANGED <<crypt_late, clean_wait, queued, clean_loop, cryptVars, codecVars>>

\* another task puts a message for c in c's queue (broadcast_message waits
\* for room, the voice router drops the packet when there is none)
QueueSend(c) ==
    /\ c \in Values(clients)
    /\ ~Closed(c)
    /\ ~queued[c].disconnect
    /\ queued[c].len < QueueCapacity
    /\ queued' = [queued EXCEPT ![c].len = @ + 1]
    /\ last' = Op("queue_send", c, session_id[c], 0, 0)
    /\ sent' = {}
    /\ UNCHANGED <<pc, clientVars, arg, clients, clients_by_socket, channels, udp>>
    /\ UNCHANGED <<crypt_late, last_ping, clean_wait, clean_loop, cryptVars, codecVars>>

\* client_run takes the message at the head of the queue, when it is not
\* held up writing to the client's stream
QueueRecv(c) ==
    /\ pc[c] = "run"
    /\ ~queued[c].disconnect
    /\ queued[c].len > 0
    /\ queued' = [queued EXCEPT ![c].len = @ - 1]
    /\ last' = Op("queue_recv", c, session_id[c], 0, 0)
    /\ sent' = {}
    /\ UNCHANGED <<pc, clientVars, arg, clients, clients_by_socket, channels, udp>>
    /\ UNCHANGED <<crypt_late, last_ping, clean_wait, clean_loop, cryptVars, codecVars>>

\* one second passes: while clean_loop sleeps; the run that is due when the
\* sleep ends comes first.  Connections that are open grow older.
Tick ==
    /\ clean_wait > 0
    /\ \A c \in Conns : last_ping[c] < MaxPingAge
    /\ clean_wait' = clean_wait - 1
    /\ last_ping' = [c \in Conns |-> IF pc[c] # "idle" THEN last_ping[c] + 1 ELSE last_ping[c]]
    /\ last' = Op("tick", NoConn, 0, 0, 0)
    /\ sent' = {}
    /\ UNCHANGED <<pc, clientVars, arg, clients, clients_by_socket, channels, udp>>
    /\ UNCHANGED <<crypt_late, queued, clean_loop, cryptVars, codecVars>>

\* clean_run, its scan and its first loop: every registered client whose
\* queue is open and whose last ping is over 60 whole seconds old gets
\* try_send(Disconnect), whose failure is only logged; then clean_loop
\* sleeps 5 s.  (The clients whose queue is closed are CleanDisconnect's.)
CleanRun ==
    LET client_to_delete ==
            {c \in Values(clients) : ~Closed(c) /\ last_ping[c] > PingTimeout}
        room(c) == queued[c].len < QueueCapacity
    IN  /\ clean_loop.pc = "loop"
        /\ clean_wait = 0
        /\ ~WriteHeld
        /\ queued' = [c \in Conns |->
                         IF c \in client_to_delete /\ room(c)
                         THEN [len |-> queued[c].len + 1, disconnect |-> TRUE]
                         ELSE queued[c]]
        /\ sent' = {Msg(c, "Disconnect", 0, 0, room(c)) : c \in client_to_delete}
        /\ last' = Op("clean_run", NoConn, 0, 0, 0)
        /\ clean_wait' = CleanPeriod
        /\ UNCHANGED <<pc, clientVars, arg, clients, clients_by_socket, channels, udp>>
        /\ UNCHANGED <<crypt_late, last_ping, clean_loop, cryptVars, codecVars>>

\* one connection, its pings, its queue, the clock and the cleanup loop
CleanNext ==
    \/ Connect(1)
    \/ \E c \in Conns : ClientSync(c)
    \/ \E c \in Conns : PingRecv(c)
    \/ \E c \in Conns : QueueSend(c)
    \/ \E c \in Conns : QueueRecv(c)
    \/ Tick
    \/ CleanRun

SpecClean == Init /\ [][CleanNext]_vars

\* ---- one receiver and its peer (SpecCrypt) --------------------------------
\* The peer encrypts under the receiver's key and its own encrypt_nonce; the
\* network loses, delays, repeats and reorders its datagrams, and anybody can
\* send datagrams made without the key.
SentNonces == {b.tag_nonce : b \in wire}

Counters(cs) == [good |-> cs.good, late |-> cs.late, lost |-> cs.lost, resync |-> cs.resync]

\* the peer encrypts its next packet; the packet is numbered by its nonce
CryptSend ==
    LET e == encrypt(peer_state, wrapping_add(peer_state.encrypt_nonce, 1))
    IN  /\ Cardinality(wire) < MaxWire
        /\ peer_state' = e.cs
        /\ wire' = wire \cup {e.buf}
        /\ crypt_hist' = [crypt_hist EXCEPT
                             !.in_order = @ /\ SentNonces \subseteq crypt_hist.accepted]
        /\ crypt_last' = NoDecrypt
        /\ UNCHANGED <<crypt_state, serverVars, crypt_late, cleanVars, codecVars>>

\* the result of decrypt is recorded with what the call started from
Decrypted(buf) ==
    LET r == decrypt(crypt_state, buf)
    IN  [op |-> "decrypt", buf |-> buf, res |-> r.res, branch |-> r.branch,
         cand |-> r.cand, delta |-> r.delta, body |-> r.body,
         saved_nonce |-> crypt_state.decrypt_nonce,
         replay |-> buf.tag_nonce \in crypt_hist.accepted,
         first |-> buf.tag_nonce \notin crypt_hist.ever,
         before |-> Counters(crypt_state)]

\* a datagram of the peer arrives, for the first time or again
CryptRecv(buf) ==
    LET r == decrypt(crypt_state, buf)
    IN  /\ buf \in wire
        /\ crypt_state' = r.cs
        /\ crypt_last' = Decrypted(buf)
        /\ crypt_hist' = [crypt_hist EXCEPT
                             !.accepted = IF r.res = "Ok" THEN @ \cup {buf.tag_nonce} ELSE @,
                             !.ever = IF r.res = "Ok" THEN @ \cup {buf.tag_nonce} ELSE @,
                             !.in_order = @ /\ buf.tag_nonce = peer_state.encrypt_nonce
                                            /\ buf.tag_nonce \notin crypt_hist.accepted]
        /\ UNCHANGED <<peer_state, wire, serverVars, crypt_late, cleanVars, codecVars>>

\* the datagrams made without the key: too short, or with the header byte of
\* the next nonce, of the one after it, or of the one before
Forged ==
    {ShortDatagram} \cup
    {Datagram(Low(wrapping_add(crypt_state.decrypt_nonce, k)), -1, -1) : k \in {1, 2, -1}}

CryptForge(buf) ==
    /\ crypt_state' = decrypt(crypt_state, buf).cs
    /\ crypt_last' = Decrypted(buf)
    /\ crypt_hist' = [crypt_hist EXCEPT !.in_order = FALSE]
    /\ UNCHANGED <<peer_state, wire, serverVars, crypt_late, cleanVars, codecVars>>

\* handler of CryptSetup with a client_nonce: the peer reports the nonce it
\* goes on from, and the receiver adopts it.  What was accepted above the
\* new nonce is no longer behind decrypt_nonce.
CryptResync(nonce) ==
    /\ crypt_state.resync < MaxResync
    /\ crypt_state' = set_decrypt_nonce(crypt_state, nonce)
    /\ peer_state' = [peer_state EXCEPT !.encrypt_nonce = nonce]
    /\ crypt_hist' = [accepted |-> {n \in crypt_hist.accepted : n <= nonce},
                      ever |-> crypt_hist.ever,
                      in_order |-> crypt_hist.in_order /\ SentNonces \subseteq crypt_hist.accepted]
    /\ crypt_last' = NoDecrypt
    /\ UNCHANGED <<wire, serverVars, crypt_late, cleanVars, codecVars>>

\* a nonce two packets before the low byte wraps, with a nonzero byte 1
ResyncNonce == 2 * 256 - 2

\* the nonces the peer resyncs to: that one, the one it is at, and the ones
\* that put its last datagram at the end of the late window and just behind
ResyncNonces ==
    {ResyncNonce} \cup {wrapping_add(peer_state.encrypt_nonce, k) : k \in {0, 29, 30}}

CryptNext ==
    \/ CryptSend
    \/ \E buf \in wire : CryptRecv(buf)
    \/ \E buf \in Forged : CryptForge(buf)
    \/ \E nonce \in ResyncNonces : CryptResync(nonce)

SpecCrypt == Init /\ [][CryptNext]_vars

\* ---- the voice router's contract (SpecRoute) -----------------------------
Registered(c) == session_id[c] \in DOMAIN clients /\ clients[session_id[c]] = c

Routed(t) == last.op = "voice_packet" /\ last.b = t /\ last.res = 0 /\ Registered(last.c)

VoiceTo == {m.to : m \in {x \in sent : x.kind = "SendVoicePacket"}}

\* every send of the step is a SendVoicePacket stamped with the sender's
\* session id, and it succeeds unless the recipient's queue is closed
EnqueuedFrom(S) ==
    \A m \in sent : /\ m.kind = "SendVoicePacket"
                    /\ m.a = session_id[S]
                    /\ m.ok <=> ~Closed(m.to)

C2_Whisper ==
    \A t \in 1..NumTargets :
        Routed(t) =>
            LET S == last.c
                slot == targets[S][t - 1]
                bySession == {d \in Values(clients) : session_id[d] \in slot.sessions}
                byChannel == {d \in Values(clients) :
                                 \E k \in slot.channels \cap DOMAIN channels :
                                     \/ channel_id[d] = k
                                     \/ session_id[d] \in channels[k].listeners}
            IN  VoiceTo = (bySession \cup byChannel) \ {S} /\ EnqueuedFrom(S)

\* a whisper to the last slot reached a client through a channel of the slot,
\* the slot naming a session too
C2_Witness ==
    /\ Routed(NumTargets)
    /\ targets[last.c][NumTargets - 1].sessions # {}
    /\ \E m \in sent : m.ok /\ session_id[m.to] \notin targets[last.c][NumTargets - 1].sessions

\* C3 (as claimed): loopback (target 31) echoes to the sender and to nobody
\* else, also when the sender is muted.
C3_LoopbackBypassesMute ==
    (last.op = "voice_packet" /\ last.b = LoopbackTarget) =>
        sent = {Msg(last.c, "VoiceEcho", session_id[last.c], LoopbackTarget, TRUE)}

\* C4: no audio of a muted client with target 0..30 is enqueued on any
\* client, whichever way the packet reached the router.
C4_MuteDrops ==
    /\ \A m \in sent : m.kind = "SendVoicePacket" =>
          last.op = "voice_packet" /\ m.a = session_id[last.c] /\ ~mute[last.c]
    /\ (last.op = "voice_packet" /\ mute[last.c] /\ last.b \in 0..NumTargets) => sent = {}

\* a muted client talked to its channel while another client sat in it
C4_Witness ==
    /\ last.op = "voice_packet"
    /\ mute[last.c]
    /\ last.b = 0
    /\ \E d \in Values(clients) :
          d # last.c /\ channel_id[d] = channel_id[last.c] /\ ~Closed(d)
          /\ channel_id[d] \in DOMAIN channels

\* ---- sessions and channels (Spec) ----------------------------------------
\* C5: add_client assigns the smallest positive integer that is not a key of
\* clients, and no two registered clients share a session id: every key of
\* clients maps to a record that carries that key, and to no other key's
\* record.
C5_FreshSessionId ==
    /\ [](\A k \in DOMAIN clients :
            /\ session_id[clients[k]] = k
            /\ \A j \in DOMAIN clients : clients[j] = clients[k] => j = k)
    /\ [][(last'.op = "add_client" /\ last' # last) =>
            LET id == last'.a
            IN  /\ id >= 1
                /\ id \notin DOMAIN clients
                /\ \A k \in 1..(id - 1) : k \in DOMAIN clients
                /\ DOMAIN clients' = (DOMAIN clients) \cup {id}
                /\ clients'[id] = last'.c
                /\ session_id'[last'.c] = id]_vars

\* a connection was given an id below that of a registered client
C5_Witness ==
    /\ last.op = "add_client"
    /\ \E k \in DOMAIN clients : k > last.a

\* C6 (as claimed): each registered client's channel_id is a key of the
\* channel map.
C6_ChannelExists == \A c \in Values(clients) : channel_id[c] \in DOMAIN channels

\* no channel move, channel creation or teardown is in progress
Quiescent == \A c \in Conns : pc[c] \in {"idle", "sync", "run"}

\* C7 (as claimed): whenever no move or teardown is in progress, the channel
\* map holds no temporary channel without a member and without a child.
C7_NoEmptyTemporary ==
    Quiescent =>
        \A k \in DOMAIN channels :
            channels[k].temporary =>
                \/ \E c \in Values(clients) : channel_id[c] = k
                \/ \E j \in DOMAIN channels : channels[j].parent_id = k

\* the condition of the claim on the channel L that was left
LeaveCondition(L) ==
    /\ \A c \in Values(clients) : channel_id[c] # L
    /\ \A k \in DOMAIN channels : channels[k].parent_id # L
    /\ L \in DOMAIN channels => channels[L].temporary

\* C8: a client that moved out of L: L is taken for removal and
\* ChannelRemove{L} is broadcast to the registered clients iff no registered
\* client is in L, no channel has L as parent, and L is temporary or missing;
\* otherwise L is kept and nothing is broadcast.  The removal that follows
\* takes L out of the map, and a channel leaves the map in no other way.  A
\* move to the client's current channel changes nothing and sends nothing.
C8_LeaveChannel ==
    /\ [](last.op = "check_leave_channel" =>
            LET L == last.a
                c == last.c
            IN  IF LeaveCondition(L)
                THEN /\ last.res = L
                     /\ pc[c] = "remove" /\ arg[c].leave = L
                     /\ \A m \in sent : m.kind = "ChannelRemove" /\ m.a = L
                     /\ (\A d \in Values(clients) : ~Closed(d)) =>
                           sent = {Msg(d, "ChannelRemove", L, 0, TRUE) : d \in Values(clients)}
                ELSE /\ last.res = NoChannel
                     /\ pc[c] = "run" /\ arg[c].leave = NoChannel
                     /\ sent = {})
    /\ [](last.op = "remove_channel" => last.a \notin DOMAIN channels)
    /\ [][/\ \A k \in DOMAIN channels :
                k \notin DOMAIN channels' =>
                    /\ last'.op = "remove_channel" /\ last'.a = k
                    /\ pc[last'.c] = "remove" /\ arg[last'.c].leave = k
          /\ \A c \in Conns :
                (pc'[c] = "remove" /\ pc[c] # "remove") =>
                    /\ last'.op = "check_leave_channel" /\ last'.c = c
                    /\ last'.res = arg'[c].leave
          /\ \A m \in sent' :
                (m.kind = "ChannelRemove" /\ last'.op # "disconnect") =>
                    last'.op = "check_leave_channel" /\ last'.res = m.a
          /\ (last'.op \in {"move", "join"} /\ last'.a = channel_id[last'.c]) =>
                /\ UNCHANGED <<clientVars, clients, clients_by_socket, channels>>
                /\ sent' = {}
                /\ pc'[last'.c] = "run"]_vars

\* a temporary channel with a child was left by its last member and kept
C8_Witness ==
    /\ last.op = "check_leave_channel"
    /\ last.res = NoChannel
    /\ last.a \in DOMAIN channels
    /\ channels[last.a].temporary
    /\ \A c \in Values(clients) : channel_id[c] # last.a

\* C9 (as claimed): the only member of a childless temporary channel
\* disconnects: after the teardown the channel is absent from the channel
\* map and ChannelRemove for it was broadcast to the remaining clients.
C9_DisconnectRemovesChannel ==
    (last.op = "disconnect" /\ last.res # NoChannel) =>
        /\ last.res \notin DOMAIN channels
        /\ \A d \in Values(clients) : Msg(d, "ChannelRemove", last.res, 0, TRUE) \in sent

\* ---- teardown (SpecUdp) --------------------------------------------------
\* C10 (as claimed): after the teardown of client S completed, S is not in
\* clients, no clients_by_socket entry maps to S, no channel's listeners
\* holds S's session id, no registered client's whisper sessions hold it,
\* and UserRemove{S} was enqueued for every client that is still registered.
C10_TeardownClears ==
    last.op = "disconnect" =>
        LET S == last.c
            id == last.a
        IN  /\ S \notin Values(clients)
            /\ \A a \in DOMAIN clients_by_socket : clients_by_socket[a] # S
            /\ \A k \in DOMAIN channels : id \notin channels[k].listeners
            /\ \A d \in Values(clients) \ {S} :
                  \A i \in DOMAIN targets[d] : id \notin targets[d][i].sessions
            /\ \A d \in Values(clients) : Msg(d, "UserRemove", id, 0, TRUE) \in sent

\* ---- replay protection and counters (SpecCrypt) ---------------------------
DecryptCalled == crypt_last.op = "decrypt"

\* how far behind the decrypt_nonce of the call the datagram's nonce is
BehindBy == crypt_last.saved_nonce - crypt_last.buf.tag_nonce

C12_LateWindow ==
    (DecryptCalled /\ crypt_last.buf.tag_nonce >= 0) =>
        /\ (BehindBy = 29 /\ crypt_last.first) => crypt_last.res = "Ok"
        /\ (BehindBy = 29 /\ crypt_last.replay) => crypt_last.res = "Repeat"
        /\ BehindBy = 30 => crypt_last.res = "Late"

\* a late packet was processed: accepted as late, or rejected as too late
LateProcessed ==
    DecryptCalled /\ \/ crypt_last.res = "Ok" /\ crypt_last.branch = "late"
                     \/ crypt_last.res = "Late"

\* C13, as stated: processing a late packet leaves good unchanged, adds one
\* to late and leaves decrypt_nonce at its value before the call.
C13_LateKeepsGood ==
    LateProcessed =>
        /\ crypt_state.good = crypt_last.before.good
        /\ crypt_state.late = crypt_last.before.late + 1
        /\ crypt_state.decrypt_nonce = crypt_last.saved_nonce

\* C13, amended: an accepted late packet adds one to good and one to late and
\* leaves decrypt_nonce at its value before the call; a packet rejected with
\* Late changes no counter and leaves decrypt_nonce as well.
C13_LateCounted ==
    /\ (DecryptCalled /\ crypt_last.res = "Ok" /\ crypt_last.branch = "late") =>
            /\ crypt_state.good = crypt_last.before.good + 1
            /\ crypt_state.late = crypt_last.before.late + 1
            /\ crypt_state.resync = crypt_last.before.resync
            /\ crypt_state.decrypt_nonce = crypt_last.saved_nonce
    /\ (DecryptCalled /\ crypt_last.res = "Late") =>
            /\ Counters(crypt_state) = crypt_last.before
            /\ crypt_state.decrypt_nonce = crypt_last.saved_nonce

\* C13 witness: a late packet was accepted while decrypt_nonce was ahead of it
C13_Witness ==
    /\ DecryptCalled /\ crypt_last.res = "Ok" /\ crypt_last.branch = "late"
    /\ crypt_last.cand # crypt_last.saved_nonce

\* C14: a decrypt that ends in Mac leaves decrypt_nonce at its value before
\* the call and changes none of decrypt_history, good, late, lost, resync,
\* whichever branch chose the nonce it tried.
C14_MacRestores ==
    /\ []((DecryptCalled /\ crypt_last.res = "Mac") =>
            /\ crypt_state.decrypt_nonce = crypt_last.saved_nonce
            /\ Counters(crypt_state) = crypt_last.before)
    /\ [][(crypt_last'.op = "decrypt" /\ crypt_last'.res = "Mac") =>
              crypt_state'.decrypt_history = crypt_state.decrypt_history]_vars

\* C14 witness: Mac after good packets, on a nonce other than the saved one
C14_Witness ==
    /\ DecryptCalled /\ crypt_last.res = "Mac"
    /\ crypt_last.cand # crypt_last.saved_nonce
    /\ crypt_last.before.good > 0

\* C15, as stated: after a successful decrypt the history entry of the
\* packet's low nonce byte equals byte 1 of decrypt_nonce as it is at return.
C15_HistoryOfNonceAtReturn ==
    (DecryptCalled /\ crypt_last.res = "Ok") =>
        crypt_state.decrypt_history[crypt_last.buf.nonce_0] = Byte2(crypt_state.decrypt_nonce)

\* C15, amended: after a successful decrypt the history entry of the packet's
\* low nonce byte equals byte 1 of the nonce the packet was decrypted under,
\* which is decrypt_nonce at return unless the packet was late.
C15_HistoryOfPacketNonce ==
    (DecryptCalled /\ crypt_last.res = "Ok") =>
        /\ crypt_last.cand = crypt_last.buf.tag_nonce
        /\ crypt_state.decrypt_history[crypt_last.buf.nonce_0] = Byte2(crypt_last.cand)
        /\ crypt_last.branch # "late" => crypt_state.decrypt_nonce = crypt_last.cand

\* C15 witness: a late packet from before the low byte wrapped was accepted
C15_Witness ==
    /\ DecryptCalled /\ crypt_last.res = "Ok" /\ crypt_last.branch = "late"
    /\ Byte2(crypt_last.cand) # Byte2(crypt_state.decrypt_nonce)

\* u32 saturating addition of a signed delta, on the i32 reading of the field
SaturatingAdd(lost, delta) ==
    IF lost >= 0
    THEN (IF lost + delta < 0 THEN 0 ELSE lost + delta)
    ELSE (IF lost + delta >= 0 THEN -1 ELSE lost + delta)

\* C16, as stated: a successful decrypt adds its lost delta to `lost` with
\* saturating arithmetic; the counter never wraps.
C16_LostSaturates ==
    (DecryptCalled /\ crypt_last.res = "Ok") =>
        crypt_state.lost = SaturatingAdd(crypt_last.before.lost, crypt_last.delta)

KnownFailed == last.op = "udp_known" /\ last.res \notin {"Ok", "OkLate"}

\* the cases the claim lets pass: Repeat, and Late with late at most 100
KnownKept == last.res = "Repeat" \/ (last.res = "Late" /\ last.b <= 100)

\* C18: a decrypt error on a datagram from an address bound to c.  Repeat, or
\* Late with late <= 100: crypt state and binding stay, nothing is sent.
\* Otherwise: the crypt state is reset, a CryptSetup goes to c, and before
\* the next datagram is read the address is out of clients_by_socket and
\* c.udp_socket_addr is None, so that the address is unbound again.
C18_KnownPathErrors ==
    /\ [](KnownFailed =>
            IF KnownKept
            THEN /\ crypt_late[last.c] = last.b
                 /\ last.a \in DOMAIN clients_by_socket
                 /\ clients_by_socket[last.a] = last.c
                 /\ udp_socket_addr[last.c] = last.a
                 /\ sent = {}
                 /\ udp.pc = "recv"
            ELSE /\ crypt_late[last.c] = 0
                 /\ sent = {Msg(last.c, "CryptSetup", 0, 0, TRUE)}
                 /\ udp = [pc |-> "unbind_known", addr |-> last.a, client |-> last.c,
                           remove |-> {last.a}])
    /\ [][(udp.pc = "unbind_known" /\ udp' # udp) =>
              /\ udp'.pc = "recv"
              /\ udp.addr \notin DOMAIN clients_by_socket'
              /\ udp_socket_addr'[udp.client] = NoAddr]_vars

\* C18 witness: Late with late = 101 was answered by a restart
C18_Witness ==
    /\ KnownFailed /\ last.res = "Late" /\ last.b = 101
    /\ crypt_late[last.c] = 0

\* ---- the dead-client window ----------------------------------------------
\* C19, as stated: after a datagram from an unbound address matched no
\* client, a further datagram from that address (here: the very next
\* datagram the loop handles, which no delay separates from the first) is
\* dropped without any client being probed: no probe of the registered
\* clients runs for it.
C19_NoProbeInWindow == ~(last.op = "udp_probe" /\ last.b = 1 /\ clients # EmptyMap)

\* ---- ping timeout (SpecClean) ----------------------------------------------
\* C20, as stated: a registered client whose queue is open and whose last
\* Ping is more than 60 s old has had a Disconnect placed on its queue by the
\* time 5 more seconds have passed.
C20_PingTimeout ==
    \A c \in Values(clients) :
        (~Closed(c) /\ last_ping[c] > PingTimeout + CleanPeriod) => queued[c].disconnect

\* ---- teardown under fair scheduling (SpecLive) ---------------------------
\* the client that stops reading: only its queue is filled and drained here
SlowConn == 1

\* connections come and go while messages pile up on the queue of SlowConn
LiveNext ==
    \/ Connect(MaxConns)
    \/ \E c \in Conns : ClientSync(c)
    \/ \E c \in Conns : ClientExit(c)
    \/ \E c \in Conns : Teardown(c)
    \/ \E c \in Conns : TeardownWait(c)
    \/ \E c \in Conns : TeardownSend(c)
    \/ \E c \in Conns : CleanDisconnect(c)
    \/ \E c \in Conns : CleanWait(c)
    \/ CleanSend
    \/ QueueSend(SlowConn)
    \/ QueueRecv(SlowConn)

\* the runtime schedules every connection task that can go on, and clean_loop
\* wakes up every 5 s as long as its task lives.  Nothing makes a client's
\* peer read: the draining of a queue is not fair.
LiveFairness ==
    /\ \A c \in Conns : WF_vars(Teardown(c) \/ TeardownWait(c))
    /\ \A c \in Conns : WF_vars(TeardownSend(c))
    /\ WF_vars(\E c \in Conns : CleanDisconnect(c) \/ CleanWait(c))
    /\ WF_vars(CleanSend)

SpecLive == Init /\ [][LiveNext]_vars /\ LiveFairness

\* disconnect has returned for c: c is out of clients and the UserRemove for
\* its session is on the queue of every remaining client whose queue is open
Removed(c) ==
    /\ c \notin Values(clients)
    /\ last.op \in {"disconnect", "disconnect_panic"}
    /\ last.c = c
    /\ \A d \in Values(clients) :
          ~Closed(d) => Msg(d, "UserRemove", last.a, 0, TRUE) \in sent

\* C21, as stated: once the run loop of a registered client has exited, the
\* client is eventually removed from clients and the UserRemove for its
\* session is broadcast, the connection tasks and the cleanup loop being
\* scheduled fairly.
C21_ExitedRemoved ==
    \A c \in Conns : (pc[c] = "exited" /\ c \in Values(clients)) ~> Removed(c)

\* ---- voice to a full queue (SpecQueue) -----------------------------------
\* three clients talk in the root channel while SlowConn falls behind
QueueNext ==
    \/ Connect(MaxQueueConns)
    \/ \E c \in Conns : ClientSync(c)
    \/ \E c \in Conns : ClientExit(c)
    \/ QueueSend(SlowConn)
    \/ QueueRecv(SlowConn)
    \/ \E c \in Conns : VoicePacketHandle(c, 0, "UDPTunnel")

SpecQueue == Init /\ [][QueueNext]_vars

\* the handler of a voice packet has just routed it to its recipients
VoiceRouted == last.op = "voice_packet" /\ last.res = 0 /\ last.b # LoopbackTarget

\* C22: when a recipient's queue is full the router drops the packet for
\* that recipient only and does not wait: the handler is never held up by a
\* queue, it offers the packet to every recipient, a recipient misses it only
\* if its queue is closed or full, and every recipient with room has it.
C22_DropOnFull ==
    /\ \A c \in Conns :
          (pc[c] = "run" /\ ~WriteHeld) => ENABLED VoicePacketHandle(c, 0, "UDPTunnel")
    /\ VoiceRouted =>
          /\ {m.to : m \in sent} = recipients(last.c, last.b)
          /\ \A m \in sent :
                /\ m.kind = "SendVoicePacket"
                /\ m.ok => ~Closed(m.to) /\ queued[m.to].len <= QueueCapacity
                /\ ~m.ok => Closed(m.to) \/ queued[m.to].len = QueueCapacity

\* C22 witness: of two recipients the one with the full queue missed the
\* packet and the other got it
C22_Witness ==
    /\ VoiceRouted
    /\ \E m1, m2 \in sent :
          /\ ~m1.ok /\ ~Closed(m1.to) /\ queued[m1.to].len = QueueCapacity
          /\ m2.ok /\ m2.to # m1.to

\* ---- the UDP loop and a full queue (SpecHandOver) ------------------------
\* one client binds an address and sends audio while its queue fills up
HandOverNext ==
    \/ Connect(1)
    \/ \E c \in Conns : ClientSync(c)
    \/ \E c \in Conns : ClientExit(c)
    \/ QueueSend(SlowConn)
    \/ QueueRecv(SlowConn)
    \/ \E a \in Addrs, owner \in Conns \cup {NoConn} : UdpRecvUnknown(a, owner, {})
    \/ UdpBind
    \/ \E a \in Addrs : UdpRecvKnown(a, "Ok")
    \/ UdpSend

SpecHandOver == Init /\ [][HandOverNext]_vars

\* C23, as stated: handling a decrypted audio datagram never blocks the UDP
\* receive loop, also when the owner's queue is full: the loop is never
\* waiting for room on a queue.
C23_LoopNeverBlocks == udp.pc # "send"

\* ---- broadcasts ------------------------------------------------------------
\* C24, as stated: a broadcast is best effort per recipient.  The broadcaster
\* does not wait (a client about to broadcast its UserState can always do
\* so), and after the broadcast every other registered client whose queue is
\* open and has room holds the message: only full or closed recipients miss
\* it.
C24_BroadcastBestEffort ==
    /\ \A c \in Conns : (pc[c] = "sync" /\ ~WriteHeld) => ENABLED ClientSync(c)
    /\ last.op = "client_run" =>
          \A d \in Values(clients) \ {last.c} :
              (~Closed(d) /\ ~Full(d)) =>
                  \E m \in sent : m.to = d /\ m.kind = "UserState" /\ m.a = last.a /\ m.ok

\* ---- the state write lock --------------------------------------------------
\* C25, as stated: no task holds the ServerState write lock while it is
\* awaiting a send on a client's queue, teardown included: neither a
\* connection task nor clean_loop is inside disconnect waiting for room.
C25_NoSendUnderWriteLock ==
    /\ \A c \in Conns : pc[c] # "send"
    /\ clean_loop.pc # "send"

\* ---- the cleanup loop ------------------------------------------------------
\* C26, as stated: the cleanup loop goes on past every error met on one
\* client, also a broadcast that fails while it disconnects a client: its
\* task never ends.
C26_CleanLoopGoesOn == clean_loop.pc # "dead"

\* ---- control frames of unknown kind (SpecFrame) ----------------------------
FrameNext ==
    \/ Connect(MaxConns)
    \/ \E c \in Conns : ClientSync(c)
    \/ \E c \in Conns : ClientExit(c)
    \/ \E c \in Conns : Teardown(c)
    \/ \E c \in Conns, kind \in FrameKinds : FrameRecv(c, kind)
    \/ \E c \in Conns, ch \in ChannelIds : UserStateMove(c, session_id[c], ch)

SpecFrame == Init /\ [][FrameNext]_vars

SyncNext ==
    \/ Next
    \/ \E c \in Conns, n \in 0..4 : ClientSyncFail(c, n)

SpecSync == Init /\ [][SyncNext]_vars

\* the kinds of the frames a new client is sent, in the order of the claim
SyncOrder == <<"ChannelState", "UserState", "UserState", "ServerSync", "ServerConfig">>

\* C28: a new client is sent every known ChannelState, then every known
\* UserState, then its own UserState, then ServerSync, then ServerConfig;
\* only after all of them is its UserState broadcast and its event loop
\* entered.  When a write fails, what was written is a beginning of that
\* order, nothing is broadcast and the loop is not entered.
C28_SyncOrder ==
    /\ [](last.op = "client_run" =>
            /\ [i \in DOMAIN last.res |-> last.res[i].kind] = SyncOrder
            /\ last.res[1].ids = DOMAIN channels
            /\ last.res[2].ids = DOMAIN clients
            /\ last.res[3].ids = {last.a}
            /\ last.res[4].session = last.a
            /\ pc[last.c] = "run"
            /\ \A m \in sent : m.kind = "UserState" /\ m.a = last.a)
    /\ [](last.op = "client_run_err" =>
            /\ Len(last.res) < Len(SyncOrder)
            /\ [i \in DOMAIN last.res |-> last.res[i].kind] = SubSeq(SyncOrder, 1, Len(last.res))
            /\ pc[last.c] = "exited"
            /\ sent = {})
    /\ [][\A c \in Conns : (pc[c] = "sync" /\ pc'[c] # "sync") =>
              /\ last'.op \in {"client_run", "client_run_err"}
              /\ last'.c = c
              /\ pc'[c] = "run" <=> last'.op = "client_run"]_vars

\* C28 witness: a client was synchronised with two channels and two clients
\* known, and its UserState reached the other client
C28_Witness ==
    /\ last.op = "client_run"
    /\ Cardinality(last.res[1].ids) = 2
    /\ Cardinality(last.res[2].ids) = 2
    /\ \E m \in sent : m.ok /\ m.to # last.c

\* ---- binding of UDP addresses (SpecUdp) ------------------------------------
\* C29: udp_socket_addr of a client becomes a, and clients_by_socket[a]
\* that client, only in set_client_socket for a datagram from a that the
\* probe decrypted under that client's crypt state; the step that binds the
\* new address removes the client's previous address from clients_by_socket.
C29_BoundByDecrypt ==
    [][/\ \A a \in Addrs :
             (/\ a \in DOMAIN clients_by_socket'
              /\ a \in DOMAIN clients_by_socket => clients_by_socket'[a] # clients_by_socket[a]) =>
                 /\ udp.pc = "bind" /\ udp.addr = a
                 /\ clients_by_socket'[a] = udp.client
                 /\ udp_socket_addr'[udp.client] = a
       /\ \A c \in Conns :
             (udp_socket_addr'[c] # NoAddr /\ udp_socket_addr'[c] # udp_socket_addr[c]) =>
                 /\ udp.pc = "bind" /\ udp.client = c /\ udp.addr = udp_socket_addr'[c]
                 /\ clients_by_socket'[udp.addr] = c
                 /\ udp_socket_addr[c] # NoAddr => udp_socket_addr[c] \notin DOMAIN clients_by_socket'
       /\ (udp'.pc = "bind" /\ udp.pc # "bind") =>
             /\ udp'.client \in Conns
             /\ \/ /\ udp.pc = "recv"
                   /\ last'.op = "udp_probe" /\ last'.c = udp'.client /\ last'.a = udp'.addr
                \/ /\ udp.pc = "unbind"
                   /\ udp.client = udp'.client /\ udp.addr = udp'.addr
       /\ (udp'.pc = "unbind" /\ udp.pc # "unbind") =>
             last'.op = "udp_probe" /\ last'.c = udp'.client /\ last'.a = udp'.addr]_vars

\* C29 witness: a client bound to one address has claimed the other one,
\* which is now its only entry
C29_Witness ==
    /\ last.op = "set_client_socket"
    /\ last.b # NoAddr /\ last.b # last.a
    /\ udp_socket_addr[last.c] = last.a
    /\ last.b \notin DOMAIN clients_by_socket

\* ---- the probe of an unbound address (SpecProbe) ---------------------------
\* two clients; the one bound to address 1 accepts late packets, so that its
\* crypt state differs from a fresh one
ProbeNext ==
    \/ Connect(MaxConns)
    \/ \E c \in Conns : ClientSync(c)
    \/ UdpRecvKnown(1, "OkLate")
    \/ \E a \in Addrs, owner \in Conns \cup {NoConn}, stale \in SUBSET Conns :
          UdpRecvUnknown(a, owner, stale)
    \/ UdpUnbind
    \/ UdpBind

SpecProbe == Init /\ [][ProbeNext]_vars

\* the clients a probe found stale: each was sent a CryptSetup
Stale(msgs) == {m.to : m \in {x \in msgs : x.kind = "CryptSetup"}}

KindVersion == 0

KindUDPTunnel == 1

KindAuthenticate == 2

\* the most UDPTunnel frames expected_message drops before one message
MaxRetry == 10

\* kinds of the frames a connecting peer sends: the two expected ones, the
\* tunnelled voice frame, a known kind (Ping) and a kind that is no MessageKind
HandshakeKinds == {KindVersion, KindUDPTunnel, KindAuthenticate, 3, 26}

\* the kind Client::init waits for at position p
ExpectedKind(p) == IF p = "version" THEN KindVersion ELSE KindAuthenticate

\* variant: every UDPTunnel frame is dropped, whatever the count
Skipped_unbounded(kind, retry) == kind = KindUDPTunnel

\* expected_message, the frame of another kind that is dropped and retried
Skipped(kind, retry) == kind = KindUDPTunnel /\ retry < MaxRetry

\* handle_new_client up to Client::init: the TLS session of a new connection
\* is accepted, nothing of the server state is touched
Accept(limit) ==
    /\ \E c \in 1..limit : Unreferenced(c)
    /\ Cardinality({c \in Conns : pc[c] # "idle"}) < limit
    /\ pc' = [pc EXCEPT ![FreshConn(limit)] = "version"]
    /\ arg' = [arg EXCEPT ![FreshConn(limit)] = NoArg]
    /\ last' = Op("accept", FreshConn(limit), 0, 0, 0)
    /\ sent' = {}
    /\ UNCHANGED <<clientVars, clients, clients_by_socket, channels, udp>>
    /\ UNCHANGED <<crypt_late, cleanVars, cryptVars, codecVars>>

\* expected_message as Client::init calls it, one frame of kind `kind` read
\* from the stream of c: the expected kind is decoded (Client::init then
\* writes the server Version, or CryptSetup after Authenticate) and the retry
\* count of the next call starts at 0; a UDPTunnel frame is dropped while
\* retry < 10; any other frame returns UnexpectedMessageKind(kind), which
\* handle_new_client returns before add_client.
expected_message(c, kind) ==
    /\ pc[c] \in {"version", "authenticate"}
    /\ IF kind = ExpectedKind(pc[c])
       THEN /\ pc' = [pc EXCEPT ![c] = IF pc[c] = "version" THEN "authenticate" ELSE "init"]
            /\ arg' = [arg EXCEPT ![c].retry = 0, ![c].read = Append(@, kind)]
            /\ last' = Op("expected_message", c, kind, arg[c].retry, 0)
            /\ sent' = {Msg(c, IF pc[c] = "version" THEN "Version" ELSE "CryptSetup", 0, 0, TRUE)}
       ELSE IF Skipped(kind, arg[c].retry)
            THEN /\ pc' = pc
                 /\ arg' = [arg EXCEPT ![c].retry = @ + 1]
                 /\ last' = Op("expected_message_retry", c, kind, arg[c].retry, 0)
                 /\ sent' = {}
            ELSE /\ pc' = [pc EXCEPT ![c] = "idle"]
                 /\ arg' = [arg EXCEPT ![c] = NoArg]
                 /\ last' = Op("UnexpectedMessageKind", c, kind, arg[c].retry, 0)
                 /\ sent' = {}
    /\ UNCHANGED <<clientVars, clients, clients_by_socket, channels, udp>>
    /\ UNCHANGED <<crypt_late, cleanVars, cryptVars, codecVars>>

\* handle_new_client after Client::init returned Ok: add_client under the
\* state write lock gives the connection a session id and inserts it;
\* Client::new takes the codecs from the celt_versions of the Authenticate
\* message
add_client(c, celt_versions) ==
    /\ pc[c] = "init"
    /\ ~ReadHeld
    /\ ~WriteHeld
    /\ LET id == get_free_session_id
       IN  /\ pc' = [pc EXCEPT ![c] = "sync"]
           /\ session_id' = [session_id EXCEPT ![c] = id]
           /\ channel_id' = [channel_id EXCEPT ![c] = RootId]
           /\ mute' = [mute EXCEPT ![c] = FALSE]
           /\ targets' = [targets EXCEPT ![c] = NewTargets]
           /\ udp_socket_addr' = [udp_socket_addr EXCEPT ![c] = NoAddr]
           /\ clients' = Put(clients, id, c)
           /\ last' = Op("handle_new_client", c, id, arg[c].read, 0)
           /\ sent' = {}
    /\ arg' = [arg EXCEPT ![c] = NoArg]
    /\ UNCHANGED <<clients_by_socket, channels, udp>>
    /\ crypt_late' = [crypt_late EXCEPT ![c] = 0]
    /\ last_ping' = [last_ping EXCEPT ![c] = 0]
    /\ queued' = [queued EXCEPT ![c] = EmptyQueue]
    /\ codecs' = [codecs EXCEPT ![c] = celt_versions]
    /\ codec_check' = [codec_check EXCEPT ![c] = NoCheck]
    /\ UNCHANGED <<clean_wait, clean_loop, cryptVars, codec_state>>

\* connections that shake hands, register, run, exit and are torn down
ShakeNext ==
    \/ Accept(MaxConns)
    \/ \E c \in Conns, kind \in HandshakeKinds : expected_message(c, kind)
    \/ \E c \in Conns : add_client(c, <<>>)
    \/ \E c \in Conns : ClientSync(c)
    \/ \E c \in Conns : ClientExit(c)
    \/ \E c \in Conns : Teardown(c)

SpecShake == Init /\ [][ShakeNext]_vars

\* a connection that is inside Client::init
Shaking(c) == pc[c] \in {"version", "authenticate", "init"}

\* C31: a connection enters clients, with a session id, only out of a
\* handshake that read exactly a Version and then an Authenticate message;
\* no more than 10 UDPTunnel frames are dropped ahead of either; a frame of
\* any other kind, or an 11th UDPTunnel frame, ends the handshake with
\* UnexpectedMessageKind and leaves clients, channels and clients_by_socket
\* as they were; a connection inside the handshake is in none of the maps.
C31_Handshake ==
    /\ [](/\ last.op = "handle_new_client" => last.b = <<KindVersion, KindAuthenticate>>
          /\ \A c \in Conns : Shaking(c) =>
                /\ arg[c].retry <= MaxRetry
                /\ c \notin Values(clients)
                /\ c \notin Values(clients_by_socket)
                /\ arg[c].read = IF pc[c] = "version" THEN <<>>
                                 ELSE IF pc[c] = "authenticate" THEN <<KindVersion>>
                                 ELSE <<KindVersion, KindAuthenticate>>
          /\ last.op = "UnexpectedMessageKind" =>
                /\ pc[last.c] = "idle"
                /\ last.c \notin Values(clients)
                /\ last.a = KindUDPTunnel => last.b = MaxRetry)
    /\ [][/\ \A c \in Conns : (c \in Values(clients') /\ c \notin Values(clients)) =>
                /\ pc[c] = "init"
                /\ last'.op = "handle_new_client" /\ last'.c = c
                /\ clients'[session_id'[c]] = c
          /\ \A c \in Conns, kind \in HandshakeKinds :
                (/\ pc[c] \in {"version", "authenticate"}
                 /\ expected_message(c, kind)
                 /\ kind # ExpectedKind(pc[c])
                 /\ ~(kind = KindUDPTunnel /\ arg[c].retry < MaxRetry)) =>
                   /\ last'.op = "UnexpectedMessageKind" /\ last'.a = kind
                   /\ pc'[c] = "idle"
                   /\ UNCHANGED <<clients, channels, clients_by_socket>>]_vars

\* C31 witness: a connection was registered after 10 dropped UDPTunnel
\* frames ahead of its Authenticate message, while another connection's
\* handshake has just failed on an 11th one
C31_Witness ==
    /\ last.op = "UnexpectedMessageKind" /\ last.a = KindUDPTunnel /\ last.b = MaxRetry
    /\ \E c \in Values(clients) : c # last.c

\* ---- whisper slots --------------------------------------------------------
\* connections that come and go; the first MaxSpeakers set their whisper slots
TargetNext ==
    \/ Connect(MaxConns)
    \/ \E c \in Conns : ClientSync(c)
    \/ \E c \in Conns : ClientExit(c)
    \/ \E c \in Conns : Teardown(c)
    \/ \E c \in Speakers, id \in TargetIds \cup {NoTargetId}, in \in TargetInputs, panics \in BOOLEAN :
          /\ panics => id = 0
          /\ VoiceTargetRecv(c, id, in.sess, in.chans, panics)

SpecTarget == Init /\ [][TargetNext]_vars

\* C32: a VoiceTarget message with id in 1..30 sets slot id-1 of the sender
\* to exactly the union of the sessions and of the channel ids of the
\* received items and changes no other slot of any client; a message
\* without id, or with an id outside 1..30 (0 among them), changes no slot
\* and the sender's session goes on.
C32_VoiceTargetSets ==
    [][\A c \in Conns, id \in TargetIds \cup {NoTargetId}, in \in TargetInputs, panics \in BOOLEAN :
          VoiceTargetRecv(c, id, in.sess, in.chans, panics) =>
             /\ pc'[c] = "run"
             /\ targets' = IF id \in 1..NumTargets
                           THEN [targets EXCEPT ![c][id - 1] =
                                   [sessions |-> in.sess, channels |-> in.chans]]
                           ELSE targets]_vars

\* ---- the codec check of a joining client ----------------------------------
\* CodecState::get_version: the preferred CELT version
get_version(cs) == IF cs.prefer_alpha THEN cs.alpha ELSE cs.beta

\* the celt_versions lists of the Authenticate messages fed to add_client
\* (a peer may list nothing, and may list a version more than once)
CodecLists == {<<>>, <<1>>, <<2>>, <<1, 2>>, <<1, 1, 1, 2>>}

\* the versions some registered client lists
Advertised == UNION {{codecs[c][i] : i \in DOMAIN codecs[c]} : c \in Values(clients)}

RECURSIVE SumOver(_, _)
SumOver(S, v) ==
    IF S = {} THEN 0
    ELSE LET c == CHOOSE x \in S : TRUE
         IN  Cardinality({i \in DOMAIN codecs[c] : codecs[c][i] = v}) + SumOver(S \ {c}, v)

\* check_codec, the HashMap `versions`: one count per entry of a client's list
VersionCount(v) == SumOver(Values(clients), v)

\* check_codec, the values new_version can end with: the loop over `versions`
\* keeps the first entry, in the map's iteration order, whose count is above
\* every count before it, which is an entry with the largest count; with no
\* entry new_version stays current_version
NewVersions(current_version) ==
    IF Advertised = {} THEN {current_version}
    ELSE {v \in Advertised : \A w \in Advertised : VersionCount(w) <= VersionCount(v)}

\* check_codec as client_run calls it for the new client c, up to the
\* comparison: the preferred version is read under the read lock of
\* codec_state, which is released at once, and the versions are counted.
\* The caller holds the state read lock until check_codec returns.
check_codec(c, new_version) ==
    /\ pc[c] = "sync"
    /\ codec_check[c].step = "none"
    /\ ~WriteHeld
    /\ new_version \in NewVersions(get_version(codec_state))
    /\ codec_check' = [codec_check EXCEPT ![c] =
                         [step |-> "counted", current_version |-> get_version(codec_state),
                          new_version |-> new_version]]
    /\ last' = Op("check_codec", c, get_version(codec_state), new_version, 0)
    /\ sent' = {}
    /\ UNCHANGED <<pc, clientVars, arg, clients, clients_by_socket, channels, udp>>
    /\ UNCHANGED <<crypt_late, cleanVars, cryptVars, codec_state, codecs>>

\* check_codec from the comparison on: with new_version = current_version
\* the codec state is returned as it is now and client_run writes it to c;
\* otherwise prefer_alpha is flipped under the write lock of codec_state,
\* new_version goes into the slot that is now preferred, and the result is
\* broadcast (a failed broadcast is logged).
check_codec_update(c) ==
    /\ codec_check[c].step = "counted"
    /\ IF codec_check[c].new_version = codec_check[c].current_version
       THEN /\ codec_state' = codec_state
            /\ sent' = {Msg(c, "CodecVersion", get_version(codec_state), 0, TRUE)}
            /\ last' = Op("check_codec_same", c, codec_check[c].current_version,
                          codec_check[c].new_version, 0)
       ELSE /\ codec_state' =
                  IF codec_state.prefer_alpha
                  THEN [codec_state EXCEPT !.prefer_alpha = FALSE,
                                           !.beta = codec_check[c].new_version]
                  ELSE [codec_state EXCEPT !.prefer_alpha = TRUE,
                                           !.alpha = codec_check[c].new_version]
            /\ \E out \in BroadcastOutcomes(clients) :
                  sent' = BroadcastSent(out, "CodecVersion", codec_check[c].new_version, 0)
            /\ last' = Op("check_codec_flip", c, codec_check[c].current_version,
                          codec_check[c].new_version, 0)
    /\ codec_check' = [codec_check EXCEPT ![c].step = "done"]
    /\ UNCHANGED <<pc, clientVars, arg, clients, clients_by_socket, channels, udp>>
    /\ UNCHANGED <<crypt_late, cleanVars, cryptVars, codecs>>

\* connections that join with their codec lists, run the codec check before
\* the synchronisation, and leave
CodecNext ==
    \/ Accept(MaxConns)
    \/ \E c \in Conns, kind \in {KindVersion, KindAuthenticate} : expected_message(c, kind)
    \/ \E c \in Conns, celt_versions \in CodecLists : add_client(c, celt_versions)
    \/ \E c \in Conns, v \in Advertised \cup {get_version(codec_state)} : check_codec(c, v)
    \/ \E c \in Conns : check_codec_update(c)
    \/ \E c \in Conns : codec_check[c].step = "done" /\ ClientSync(c)
    \/ \E c \in Conns : ClientExit(c)
    \/ \E c \in Conns : Teardown(c)

SpecCodec == Init /\ [][CodecNext]_vars

\* the versions listed by the largest number of registered clients
MostAdvertised ==
    LET n(v) == Cardinality({c \in Values(clients) : \E i \in DOMAIN codecs[c] : codecs[c][i] = v})
    IN  {v \in Advertised : \A w \in Advertised : n(w) <= n(v)}

\* C33: when the codec check of a joining client completes, the preferred
\* version is one that the largest number of registered clients advertise
\* (if any is advertised); if it differs from the version preferred before,
\* prefer_alpha was flipped, the version stored in the slot now preferred
\* and CodecVersion broadcast; otherwise the codec state is as before.
\* Checks of two joining clients may overlap.
C33_CodecCheck ==
    [][\A c \in Conns : check_codec_update(c) =>
          /\ Advertised # {} => get_version(codec_state') \in MostAdvertised
          /\ IF get_version(codec_state') # get_version(codec_state)
             THEN /\ codec_state'.prefer_alpha = ~codec_state.prefer_alpha
                  /\ \E m \in sent' : m.kind = "CodecVersion"
                  /\ \A m \in sent' : m.kind = "CodecVersion" /\ m.a = get_version(codec_state')
             ELSE codec_state' = codec_state]_vars

\* ---- a record torn down twice ----------------------------------------------
\* a connection task that is between add_client and the end of client_run
Live(c) == pc[c] \in {"sync", "run", "add", "join", "check", "remove"}

\* C34: a teardown removes only the client it is run for: a client whose
\* connection task is still running stays registered under its session id,
\* and no UserRemove naming its session is broadcast, also when the record
\* that had this session id before is torn down a second time.
C34_TeardownOnlyItsClient ==
    \A d \in Conns : Live(d) =>
        /\ session_id[d] \in DOMAIN clients
        /\ clients[session_id[d]] = d
        /\ \A m \in sent : m.kind = "UserRemove" => m.a # session_id[d]

\* ---- the VoiceTarget handler, step by step --------------------------------
\* VoiceTarget handler for an id in 1..30, up to the end of the loop over the
\* target items: each session and channel id is looked up under a state read
\* lock of its own and kept in the local sets `sessions` and `channels`.  No
\* lock is held when the loop is left.  (Other ids: VoiceTargetRecv.)
VoiceTargetLookup(c, id, sess, chans) ==
    /\ pc[c] = "run"
    /\ ~WriteHeld
    /\ id \in 1..NumTargets
    /\ pc' = [pc EXCEPT ![c] = "target"]
    /\ arg' = [arg EXCEPT ![c] = [NoArg EXCEPT !.slot = get_target(id - 1),
                                              !.sessions = sess \cap DOMAIN clients,
                                              !.channels = chans \cap DOMAIN channels]]
    /\ last' = Op("voice_target_lookup", c, id, 0, get_target(id - 1))
    /\ sent' = {}
    /\ UNCHANGED <<clientVars, clients, clients_by_socket, channels, udp>>
    /\ UNCHANGED <<crypt_late, cleanVars, cryptVars, codecVars>>

\* VoiceTarget handler, the two assignments under the write lock of the slot
VoiceTargetStore(c) ==
    /\ pc[c] = "target"
    /\ pc' = [pc EXCEPT ![c] = "run"]
    /\ targets' = [targets EXCEPT ![c][arg[c].slot] =
                     [sessions |-> arg[c].sessions, channels |-> arg[c].channels]]
    /\ arg' = [arg EXCEPT ![c] = NoArg]
    /\ last' = Op("voice_target", c, arg[c].slot + 1, 0, arg[c].slot)
    /\ sent' = {}
    /\ UNCHANGED <<session_id, channel_id, mute, udp_socket_addr,
                   clients, clients_by_socket, channels, udp>>
    /\ UNCHANGED <<crypt_late, cleanVars, cryptVars, codecVars>>

\* clients that come and go while the first MaxSpeakers set slot 0 and
\* whisper to it
WhisperNext ==
    \/ Connect(MaxConns)
    \/ \E c \in Conns : ClientSync(c)
    \/ \E c \in Conns : ClientExit(c)
    \/ \E c \in Conns : Teardown(c)
    \/ \E c \in Speakers, sess \in SUBSET (1..MaxConns) : VoiceTargetLookup(c, 1, sess, {})
    \/ \E c \in Speakers : VoiceTargetStore(c)
    \/ \E c \in Speakers : VoicePacketHandle(c, 1, "UDPTunnel")

SpecWhisper == Init /\ [][WhisperNext]_vars

\* C35: a session id that a completed teardown removed is in no client's
\* whisper slots: the slots of a registered client whose VoiceTarget handler
\* is not running hold registered session ids only, also when the handler
\* ran concurrently with the teardown of a client it names.
C35_NoWhisperToRemoved ==
    \A d \in Values(clients) : pc[d] = "run" =>
        \A i \in DOMAIN targets[d] : targets[d][i].sessions \subseteq DOMAIN clients

\* ---- the socket map --------------------------------------------------------
\* C36: while the UDP loop waits for a datagram and no teardown is under way,
\* clients_by_socket maps address a to client c exactly when c is registered
\* and c.udp_socket_addr is a; no address stays bound to a client that was
\* removed between the probe that found it and its binding.
C36_SocketMapExact ==
    (udp.pc = "recv" /\ ~WriteHeld) =>
        \A a \in Addrs, c \in Conns :
            (a \in DOMAIN clients_by_socket /\ clients_by_socket[a] = c)
                <=> (c \in Values(clients) /\ udp_socket_addr[c] = a)

\* ---- encrypt and reset ------------------------------------------------------
\* CryptState::reset: the counters and both nonces go back to their initial
\* values; the key stays (it is not part of the model)
reset(cs) == NewCryptState

\* the packets that are encrypted
Bodies == {1, 2}

\* CryptState::encrypt of the packet `body` by the sending end; the call is
\* recorded with the nonce it started from and with whether the nonce it
\* used was used by an earlier call under this key
CryptEncrypt(body) ==
    LET e == encrypt(peer_state, body)
    IN  /\ Cardinality(wire \cup {e.buf}) <= MaxWire
        /\ peer_state' = e.cs
        /\ wire' = wire \cup {e.buf}
        /\ crypt_last' = [NoDecrypt EXCEPT !.op = "encrypt", !.buf = e.buf, !.body = body,
                                           !.saved_nonce = peer_state.encrypt_nonce,
                                           !.replay = e.buf.tag_nonce \in SentNonces]
        /\ UNCHANGED <<crypt_state, crypt_hist, serverVars, crypt_late, cleanVars, codecVars>>

\* Client::send_crypt_setup(true): the sending end resets its CryptState and
\* reports key and nonces in a CryptSetup
CryptReset ==
    /\ peer_state' = reset(peer_state)
    /\ crypt_last' = [NoDecrypt EXCEPT !.op = "reset", !.saved_nonce = peer_state.encrypt_nonce]
    /\ UNCHANGED <<crypt_state, wire, crypt_hist, serverVars, crypt_late, cleanVars, codecVars>>

\* one CryptState that encrypts and is reset, and the other end that
\* decrypts what arrives
NonceNext ==
    \/ \E body \in Bodies : CryptEncrypt(body)
    \/ CryptReset
    \/ \E buf \in wire : CryptRecv(buf)

SpecNonce == Init /\ [][NonceNext]_vars

\* C37: every encrypt call uses the nonce that is one above the nonce of the
\* call before, and no encrypt call uses a nonce that an earlier call used
\* under the same key, resets of the CryptState included.
C37_NonceUnique ==
    crypt_last.op = "encrypt" =>
        /\ crypt_last.buf.tag_nonce = wrapping_add(crypt_last.saved_nonce, 1)
        /\ ~crypt_last.replay

\* ---- channel ids in whisper slots -------------------------------------------
\* C38: a channel id in a whisper slot stands for the channel that had the
\* id when the slot was set: the id that add_channel gives to a new channel
\* is in no registered client's slot, so no whisper to a slot set earlier
\* reaches the members of the new channel.
C38_SlotKeepsItsChannel ==
    last.op = "add_channel" =>
        \A d \in Values(clients) : \A i \in DOMAIN targets[d] :
            last.a \notin targets[d][i].channels

\* ---- channel names -----------------------------------------------------------
\* C39: no two channels of the channel map have the same name, also when two
\* clients ask for the same new name at the same time.
C39_UniqueNames ==
    \A k1 \in DOMAIN channels : \A k2 \in DOMAIN channels :
        channels[k1].name = channels[k2].name => k1 = k2

\* ---- the admin's mute ----------------------------------------------------------
\* clients that talk to their channel, are muted and unmuted by the admin,
\* and send UserState messages for their own session that carry mute = false
\* (no client mutes itself here: a mute flag that is set was set by the admin)
MuteNext ==
    \/ Connect(MaxConns)
    \/ \E c \in Conns : ClientSync(c)
    \/ \E c \in Conns : ClientExit(c)
    \/ \E c \in Conns : Teardown(c)
    \/ \E c \in Conns, m \in BOOLEAN : post_mute(c, m)
    \/ \E c \in Conns : UserStateMute(c, FALSE)
    \/ \E c \in Conns, t \in {0, 1} : VoicePacketHandle(c, t, "UDPTunnel")

SpecMute == Init /\ [][MuteNext]_vars

\* C40: a client the admin has muted stays muted until the admin unmutes
\* it: while its session goes on, its mute flag is cleared by a POST /mute
\* only, whatever the client itself sends, so none of its audio with target
\* 0..30 reaches another client in between.
C40_AdminMuteStays ==
    [][\A c \in Conns :
          (mute[c] /\ ~mute'[c] /\ c \in Values(clients') /\ pc'[c] = "run") =>
              (last'.op = "post_mute" /\ last'.c = c)]_vars

====
